---- MODULE Spec2Model ----
(***************************************************************************)
(* Model of the Easynews/Newznab bridge (src/server.py) and of the helpers *)
(* of src/easynews_client.py it relies on.                                 *)
(*                                                                         *)
(*   Spec       request handlers (api) running concurrently over the       *)
(*              process-wide session state guarded by _CLIENT_LOCK         *)
(*   CodecSpec  encode_id applied to the references of a bounded set and   *)
(*              decode_id to the identifiers it returns                    *)
(*   SizeSpec   parse_size_to_bytes applied to the strings of a bounded    *)
(*              set                                                        *)
(*   NormSpec   filter_and_map and parse_results applied to the responses  *)
(*              of a bounded set                                           *)
(***************************************************************************)
EXTENDS Integers, Sequences, FiniteSets, TLC

\* ------------------------------------------------------------------------
\* Program constants (src/server.py)
_CLIENT_LOGIN_TTL == 600

_CLIENT_BACKOFF_BASE == 5

_CLIENT_BACKOFF_MAX == 300

\* the saturation value in min(_CLIENT_FAIL_COUNT + 1, 10)
FAIL_COUNT_CAP == 10

\* ------------------------------------------------------------------------
\* Bounds of the model
\* number of concurrent request handlers
NumThreads == 2

\* value of time.time() when the process starts (any epoch later than the TTL)
Epoch == 1000

\* how many requests the handlers receive
MaxRequests == 4

Threads == 1..NumThreads

\* Python's None where a handle is expected (the initial value of _CLIENT)
None == 0

\* identities of EasynewsClient objects: enough for every reference that can be
\* alive at once (_CLIENT and one local per handler) plus a fresh one
Handles == 1..(NumThreads + 2)

RECURSIVE Pow2(_)
Pow2(n) == IF n <= 0 THEN 1 ELSE 2 * Pow2(n - 1)

Min(a, b) == IF a < b THEN a ELSE b

Max(a, b) == IF a > b THEN a ELSE b

\* ========================================================================
\* Text.  A str is a sequence of code points, a bytes object a sequence of
\* numbers in 0..255.

\* the printable ASCII characters, code 32 to 126 (DQ: double quote, BS: backslash,
\* BQ: backquote)
Ascii ==
  <<
    " ", "!", "DQ", "#", "$", "%", "&", "'", "(", ")", "*", "+", ",", "-", ".", "/",
    "0", "1", "2", "3", "4", "5", "6", "7", "8", "9", ":", ";", "<", "=", ">", "?",
    "@", "A", "B", "C", "D", "E", "F", "G", "H", "I", "J", "K", "L", "M", "N", "O",
    "P", "Q", "R", "S", "T", "U", "V", "W", "X", "Y", "Z", "[", "BS", "]", "^", "_",
    "BQ", "a", "b", "c", "d", "e", "f", "g", "h", "i", "j", "k", "l", "m", "n", "o",
    "p", "q", "r", "s", "t", "u", "v", "w", "x", "y", "z", "{", "|", "}", "~"
  >>

Ord(ch) == 31 + (CHOOSE i \in 1..Len(Ascii) : Ascii[i] = ch)

\* the str written as a tuple of characters
Lit(s) == [i \in 1..Len(s) |-> Ord(s[i])]

\* the concatenation of a sequence of sequences
RECURSIVE Concat(_)
Concat(ss) ==
  IF Len(ss) = 0 THEN <<>>
  ELSE IF Len(ss) = 1 THEN ss[1]
  ELSE LET h == Len(ss) \div 2
       IN Concat(SubSeq(ss, 1, h)) \o Concat(SubSeq(ss, h + 1, Len(ss)))

\* ------------------------------------------------------------------------
\* JSON values, as Python holds them: None, bool, int, float, str, list, dict
JNull == [t |-> "null"]

JBool(b) == [t |-> "bool", b |-> b]

JNum(n) == [t |-> "num", n |-> n]

\* a float is kept as the text that denotes it
JFloat(x) == [t |-> "float", x |-> x]

JStr(s) == [t |-> "str", s |-> s]

JArr(a) == [t |-> "arr", a |-> a]

\* a dict: a function from key (a str) to value
JObj(m) == [t |-> "obj", m |-> m]

EmptyDict == [k \in {} |-> JNull]

DictPut(m, k, v) == [x \in (DOMAIN m) \cup {k} |-> IF x = k THEN v ELSE m[x]]

\* dict.get(k): None when the key is absent
Get(d, k) == IF k \in DOMAIN d THEN d[k] ELSE JNull

\* Python truthiness of a value
Truthy(v) ==
  CASE v.t = "null" -> FALSE
    [] v.t = "bool" -> v.b
    [] v.t = "num" -> v.n # 0
    [] v.t = "float" -> TRUE
    [] v.t = "str" -> Len(v.s) > 0
    [] v.t = "arr" -> Len(v.a) > 0
    [] v.t = "obj" -> DOMAIN v.m # {}

K_hash == Lit(<<"h", "a", "s", "h">>)

K_filename == Lit(<<"f", "i", "l", "e", "n", "a", "m", "e">>)

K_ext == Lit(<<"e", "x", "t">>)

K_sig == Lit(<<"s", "i", "g">>)

K_title == Lit(<<"t", "i", "t", "l", "e">>)

K_sample == Lit(<<"s", "a", "m", "p", "l", "e">>)

\* ------------------------------------------------------------------------
\* json.dumps(payload, ensure_ascii=False)
RECURSIVE Digits(_)
Digits(n) == IF n < 10 THEN <<48 + n>> ELSE Digits(n \div 10) \o <<48 + (n % 10)>>

HexDigit(n) == IF n < 10 THEN 48 + n ELSE 87 + n

\* one character inside a JSON string: quote and backslash are escaped, control
\* characters are escaped, everything else (non-ASCII too) is written as is
json_escape(ch) ==
  CASE ch = 34 -> <<92, 34>>
    [] ch = 92 -> <<92, 92>>
    [] ch = 10 -> <<92, 110>>
    [] ch = 13 -> <<92, 114>>
    [] ch = 9 -> <<92, 116>>
    [] ch = 8 -> <<92, 98>>
    [] ch = 12 -> <<92, 102>>
    [] ch < 32 /\ ch \notin {8, 9, 10, 12, 13} ->
         <<92, 117, 48, 48, HexDigit(ch \div 16), HexDigit(ch % 16)>>
    [] OTHER -> <<ch>>

json_dumps_str(s) == <<34>> \o Concat([i \in 1..Len(s) |-> json_escape(s[i])]) \o <<34>>

json_dumps_value(v) ==
  CASE v.t = "null" -> Lit(<<"n", "u", "l", "l">>)
    [] v.t = "bool" -> IF v.b THEN Lit(<<"t", "r", "u", "e">>)
                              ELSE Lit(<<"f", "a", "l", "s", "e">>)
    [] v.t = "num" -> IF v.n < 0 THEN <<45>> \o Digits(0 - v.n) ELSE Digits(v.n)
    [] v.t = "float" -> v.x
    [] v.t = "str" -> json_dumps_str(v.s)

\* a dict whose items are given in insertion order, as <<key, value>> pairs
json_dumps(items) ==
  <<123>>
  \o Concat([i \in 1..Len(items) |->
       (IF i > 1 THEN <<44, 32>> ELSE <<>>)
       \o json_dumps_str(items[i][1]) \o <<58, 32>> \o json_dumps_value(items[i][2])])
  \o <<125>>

\* ------------------------------------------------------------------------
\* str.encode() and bytes.decode(): UTF-8, strict
Utf8EncodeChar(cp) ==
  IF cp < 128 THEN <<cp>>
  ELSE IF cp < 2048 THEN <<192 + (cp \div 64), 128 + (cp % 64)>>
  ELSE IF cp < 65536 THEN <<224 + (cp \div 4096), 128 + ((cp \div 64) % 64), 128 + (cp % 64)>>
  ELSE <<240 + (cp \div 262144), 128 + ((cp \div 4096) % 64),
         128 + ((cp \div 64) % 64), 128 + (cp % 64)>>

\* a lone surrogate cannot be encoded (UnicodeEncodeError)
Encodable(s) == \A i \in 1..Len(s) : s[i] \notin 55296..57343

Utf8Encode(s) == Concat([i \in 1..Len(s) |-> Utf8EncodeChar(s[i])])

IsCont(x) == x \in 128..191

\* the length of the sequence a lead byte announces, 0 when it is no lead byte
Utf8Len(c0) ==
  IF c0 < 128 THEN 1
  ELSE IF c0 \in 194..223 THEN 2
  ELSE IF c0 \in 224..239 THEN 3
  ELSE IF c0 \in 240..244 THEN 4
  ELSE 0

\* a well-formed sequence starts at i
Utf8ValidAt(b, i) ==
  LET n == Utf8Len(b[i]) IN
  /\ n > 0
  /\ i + n - 1 <= Len(b)
  /\ \A k \in 1..(n - 1) : IsCont(b[i + k])
  /\ (b[i] = 224 => b[i + 1] >= 160)
  /\ (b[i] = 237 => b[i + 1] <= 159)
  /\ (b[i] = 240 => b[i + 1] >= 144)
  /\ (b[i] = 244 => b[i + 1] <= 143)

Utf8CodePoint(b, i) ==
  CASE Utf8Len(b[i]) = 1 -> b[i]
    [] Utf8Len(b[i]) = 2 -> (b[i] - 192) * 64 + (b[i + 1] - 128)
    [] Utf8Len(b[i]) = 3 -> (b[i] - 224) * 4096 + (b[i + 1] - 128) * 64 + (b[i + 2] - 128)
    [] Utf8Len(b[i]) = 4 -> (b[i] - 240) * 262144 + (b[i + 1] - 128) * 4096
                            + (b[i + 2] - 128) * 64 + (b[i + 3] - 128)

\* [ok, s]: not ok stands for UnicodeDecodeError.  The bytes are well formed
\* when every byte that is no continuation byte starts a well-formed sequence
\* and every continuation byte lies inside the sequence of the lead before it.
Utf8Decode(b) ==
  LET leads == SelectSeq([i \in 1..Len(b) |-> i], LAMBDA i : ~IsCont(b[i]))
      inside(i) == \E j \in Max(1, i - 3)..(i - 1) : ~IsCont(b[j]) /\ j + Utf8Len(b[j]) > i
      ok == \A i \in 1..Len(b) : IF IsCont(b[i]) THEN inside(i) ELSE Utf8ValidAt(b, i)
  IN IF ok THEN [ok |-> TRUE, s |-> [k \in 1..Len(leads) |-> Utf8CodePoint(b, leads[k])]]
     ELSE [ok |-> FALSE, s |-> <<>>]

\* ------------------------------------------------------------------------
\* base64.urlsafe_b64encode / urlsafe_b64decode
\* the character of a 6-bit value in the URL-safe alphabet
B64Char(v) ==
  IF v < 26 THEN 65 + v
  ELSE IF v < 52 THEN 97 + (v - 26)
  ELSE IF v < 62 THEN 48 + (v - 52)
  ELSE IF v = 62 THEN 45
  ELSE 95

\* the 6-bit value of a character, 64 when it is not of the alphabet; the
\* decoder translates - and _ to + and / and then accepts the standard alphabet
B64Val(ch) ==
  IF ch \in 65..90 THEN ch - 65
  ELSE IF ch \in 97..122 THEN ch - 97 + 26
  ELSE IF ch \in 48..57 THEN ch - 48 + 52
  ELSE IF ch \in {45, 43} THEN 62
  ELSE IF ch \in {95, 47} THEN 63
  ELSE 64

\* three bytes give four characters; a last group of one or two bytes is
\* completed with = characters
urlsafe_b64encode(b) ==
  LET n == Len(b)
      byte(i) == IF i <= n THEN b[i] ELSE 0
      char(j) ==
        LET g == 3 * ((j - 1) \div 4)
            r == (j - 1) % 4
        IN CASE r = 0 -> B64Char(byte(g + 1) \div 4)
             [] r = 1 -> B64Char((byte(g + 1) % 4) * 16 + (byte(g + 2) \div 16))
             [] r = 2 -> IF g + 2 > n THEN 61
                         ELSE B64Char((byte(g + 2) % 16) * 4 + (byte(g + 3) \div 64))
             [] r = 3 -> IF g + 3 > n THEN 61 ELSE B64Char(byte(g + 3) % 64)
  IN [j \in 1..(4 * ((n + 2) \div 3)) |-> char(j)]

RECURSIVE rstrip(_, _)
rstrip(s, ch) ==
  IF Len(s) > 0 /\ s[Len(s)] = ch THEN rstrip(SubSeq(s, 1, Len(s) - 1), ch) ELSE s

\* binascii.a2b_base64, not strict.  Characters outside the alphabet are
\* skipped.  A = ends the input when it completes a quad: after three data
\* characters, or as the second = after two.  Without such an end the data
\* characters must fill whole quads.  The result is [ok, b]: not ok stands for
\* binascii.Error.
urlsafe_b64decode(s) ==
  LET n == Len(s)
      IsData(i) == B64Val(s[i]) < 64
      quad_pos(i) == Cardinality({j \in 1..(i - 1) : IsData(j)}) % 4
      before(i) == Cardinality({j \in 1..(i - 1) : IsData(j)})
      stops == {i \in 1..n :
                  /\ s[i] = 61
                  /\ \/ quad_pos(i) = 3
                     \/ /\ quad_pos(i) = 2
                        /\ \E j \in 1..(i - 1) : s[j] = 61 /\ before(j) = before(i)}
      end == IF stops = {} THEN n ELSE (CHOOSE i \in stops : \A j \in stops : i <= j) - 1
      at == SelectSeq([i \in 1..end |-> i], LAMBDA i : IsData(i))
      d(k) == B64Val(s[at[k]])
      byte(k) ==
        LET g == 4 * ((k - 1) \div 3)
            r == (k - 1) % 3
        IN CASE r = 0 -> d(g + 1) * 4 + (d(g + 2) \div 16)
             [] r = 1 -> (d(g + 2) % 16) * 16 + (d(g + 3) \div 4)
             [] r = 2 -> (d(g + 3) % 4) * 64 + d(g + 4)
  IN [ok |-> stops # {} \/ Len(at) % 4 = 0,
      b |-> [k \in 1..((Len(at) * 6) \div 8) |-> byte(k)]]

\* ------------------------------------------------------------------------
\* json.loads: the result of parsing from position p is [ok, v, p], p being
\* the position after the value
ParseOk(v, p) == [ok |-> TRUE, v |-> v, p |-> p]

ParseFail(p) == [ok |-> FALSE, v |-> JNull, p |-> p]

IsDigit(ch) == ch \in 48..57

IsHex(ch) == ch \in (48..57) \cup (65..70) \cup (97..102)

HexVal(ch) == IF ch \in 48..57 THEN ch - 48 ELSE IF ch \in 65..70 THEN ch - 55 ELSE ch - 87

HasLit(s, p, lit) == p + Len(lit) - 1 <= Len(s) /\ SubSeq(s, p, p + Len(lit) - 1) = lit

RECURSIVE SkipWs(_, _)
SkipWs(s, p) == IF p <= Len(s) /\ s[p] \in {32, 9, 10, 13} THEN SkipWs(s, p + 1) ELSE p

RECURSIVE SkipDigits(_, _)
SkipDigits(s, p) == IF p <= Len(s) /\ IsDigit(s[p]) THEN SkipDigits(s, p + 1) ELSE p

RECURSIVE DigitsValue(_, _, _)
DigitsValue(s, p, q) == IF q < p THEN 0 ELSE DigitsValue(s, p, q - 1) * 10 + (s[q] - 48)

\* the character a backslash escape stands for, 0 when it is no simple escape
Unescape(e) ==
  CASE e = 34 -> 34
    [] e = 92 -> 92
    [] e = 47 -> 47
    [] e = 98 -> 8
    [] e = 102 -> 12
    [] e = 110 -> 10
    [] e = 114 -> 13
    [] e = 116 -> 9
    [] OTHER -> 0

\* the four hex digits of a \u escape, starting at position p
HasHex4(s, p) == p + 3 <= Len(s) /\ \A k \in 0..3 : IsHex(s[p + k])

Hex4(s, p) ==
  HexVal(s[p]) * 4096 + HexVal(s[p + 1]) * 256 + HexVal(s[p + 2]) * 16 + HexVal(s[p + 3])

\* the body of a string, p being the position after the opening quote; a
\* \u escape of a high surrogate followed by one of a low surrogate is one
\* character, any other \u escape is the code point it names
RECURSIVE ScanString(_, _, _)
ScanString(s, p, acc) ==
  IF p > Len(s) THEN ParseFail(p)
  ELSE IF s[p] = 34 THEN ParseOk(JStr(acc), p + 1)
  ELSE IF s[p] < 32 THEN ParseFail(p)
  ELSE IF s[p] # 92 THEN ScanString(s, p + 1, Append(acc, s[p]))
  ELSE IF p + 1 > Len(s) THEN ParseFail(p)
  ELSE IF s[p + 1] = 117 THEN
    IF HasHex4(s, p + 2)
      THEN LET uni == Hex4(s, p + 2) IN
           IF /\ uni \in 55296..56319
              /\ p + 7 <= Len(s) /\ s[p + 6] = 92 /\ s[p + 7] = 117
              /\ HasHex4(s, p + 8)
              /\ Hex4(s, p + 8) \in 56320..57343
             THEN ScanString(s, p + 12,
                    Append(acc, 65536 + (uni - 55296) * 1024 + (Hex4(s, p + 8) - 56320)))
             ELSE ScanString(s, p + 6, Append(acc, uni))
      ELSE ParseFail(p)
  ELSE IF Unescape(s[p + 1]) # 0 THEN ScanString(s, p + 2, Append(acc, Unescape(s[p + 1])))
  ELSE ParseFail(p)

\* -?(0|[1-9][0-9]*)(.[0-9]+)?([eE][+-]?[0-9]+)?
ParseNumber(s, p) ==
  LET q0 == IF s[p] = 45 THEN p + 1 ELSE p IN
  IF q0 > Len(s) \/ ~IsDigit(s[q0]) THEN ParseFail(p)
  ELSE
    LET q1 == IF s[q0] = 48 THEN q0 + 1 ELSE SkipDigits(s, q0)
        q2 == IF q1 + 1 <= Len(s) /\ s[q1] = 46 /\ IsDigit(s[q1 + 1])
                THEN SkipDigits(s, q1 + 1) ELSE q1
        e1 == IF q2 + 1 <= Len(s) /\ s[q2] \in {69, 101} /\ s[q2 + 1] \in {43, 45}
                THEN q2 + 2 ELSE q2 + 1
        q3 == IF q2 <= Len(s) /\ s[q2] \in {69, 101} /\ e1 <= Len(s) /\ IsDigit(s[e1])
                THEN SkipDigits(s, e1) ELSE q2
    IN IF q3 = q1
         THEN ParseOk(JNum(IF s[p] = 45 THEN 0 - DigitsValue(s, q0, q1 - 1)
                                        ELSE DigitsValue(s, q0, q1 - 1)), q1)
         ELSE ParseOk(JFloat(SubSeq(s, p, q3 - 1)), q3)

RECURSIVE ParseValue(_, _), ParseElems(_, _, _), ParseMembers(_, _, _)
\* a value starting at p (whitespace before it already skipped)
ParseValue(s, p) ==
  IF p > Len(s) THEN ParseFail(p)
  ELSE IF s[p] = 34 THEN ScanString(s, p + 1, <<>>)
  ELSE IF s[p] = 123 THEN
    LET q == SkipWs(s, p + 1) IN
    IF q <= Len(s) /\ s[q] = 125 THEN ParseOk(JObj(EmptyDict), q + 1)
    ELSE ParseMembers(s, q, EmptyDict)
  ELSE IF s[p] = 91 THEN
    LET q == SkipWs(s, p + 1) IN
    IF q <= Len(s) /\ s[q] = 93 THEN ParseOk(JArr(<<>>), q + 1)
    ELSE ParseElems(s, q, <<>>)
  ELSE IF HasLit(s, p, Lit(<<"n", "u", "l", "l">>)) THEN ParseOk(JNull, p + 4)
  ELSE IF HasLit(s, p, Lit(<<"t", "r", "u", "e">>)) THEN ParseOk(JBool(TRUE), p + 4)
  ELSE IF HasLit(s, p, Lit(<<"f", "a", "l", "s", "e">>)) THEN ParseOk(JBool(FALSE), p + 5)
  ELSE IF HasLit(s, p, Lit(<<"N", "a", "N">>)) THEN ParseOk(JFloat(SubSeq(s, p, p + 2)), p + 3)
  ELSE IF HasLit(s, p, Lit(<<"I", "n", "f", "i", "n", "i", "t", "y">>))
    THEN ParseOk(JFloat(SubSeq(s, p, p + 7)), p + 8)
  ELSE IF HasLit(s, p, Lit(<<"-", "I", "n", "f", "i", "n", "i", "t", "y">>))
    THEN ParseOk(JFloat(SubSeq(s, p, p + 8)), p + 9)
  ELSE IF s[p] = 45 \/ IsDigit(s[p]) THEN ParseNumber(s, p)
  ELSE ParseFail(p)

\* the elements of a list from p (the position of an element), acc those before
ParseElems(s, p, acc) ==
  LET r == ParseValue(s, p) IN
  IF ~r.ok THEN r
  ELSE LET q == SkipWs(s, r.p) IN
    IF q > Len(s) THEN ParseFail(q)
    ELSE IF s[q] = 93 THEN ParseOk(JArr(Append(acc, r.v)), q + 1)
    ELSE IF s[q] = 44 THEN ParseElems(s, SkipWs(s, q + 1), Append(acc, r.v))
    ELSE ParseFail(q)

\* the members of an object from p (the position of a key), m those before; a
\* key given twice keeps its last value
ParseMembers(s, p, m) ==
  IF p > Len(s) \/ s[p] # 34 THEN ParseFail(p)
  ELSE LET k == ScanString(s, p + 1, <<>>) IN
    IF ~k.ok THEN k
    ELSE LET c == SkipWs(s, k.p) IN
      IF c > Len(s) \/ s[c] # 58 THEN ParseFail(c)
      ELSE LET r == ParseValue(s, SkipWs(s, c + 1)) IN
        IF ~r.ok THEN r
        ELSE LET q == SkipWs(s, r.p) IN
          IF q > Len(s) THEN ParseFail(q)
          ELSE IF s[q] = 125 THEN ParseOk(JObj(DictPut(m, k.v.s, r.v)), q + 1)
          ELSE IF s[q] = 44 THEN ParseMembers(s, SkipWs(s, q + 1), DictPut(m, k.v.s, r.v))
          ELSE ParseFail(q)

\* [ok, v]: not ok stands for JSONDecodeError (no value, or data after the value)
json_loads(s) ==
  LET r == ParseValue(s, SkipWs(s, 1)) IN
  IF r.ok /\ SkipWs(s, r.p) > Len(s) THEN [ok |-> TRUE, v |-> r.v]
  ELSE [ok |-> FALSE, v |-> JNull]

\* ------------------------------------------------------------------------
\* encode_id(item): item is a dict.  The result is [err, s]: err is "none" or
\* the exception raised.
SampleEntry(item) ==
  IF Truthy(Get(item, K_sample)) THEN << <<K_sample, JBool(TRUE)>> >> ELSE <<>>

Payload(item) ==
  << <<K_hash, Get(item, K_hash)>>,
     <<K_filename, Get(item, K_filename)>>,
     <<K_ext, Get(item, K_ext)>>,
     <<K_sig, Get(item, K_sig)>>,
     <<K_title, Get(item, K_title)>> >>
  \o SampleEntry(item)

StripPadding(s) == rstrip(s, 61)

encode_id(item) ==
  LET text == json_dumps(Payload(item)) IN
  IF ~Encodable(text) THEN [err |-> "UnicodeEncodeError", s |-> <<>>]
  ELSE [err |-> "none", s |-> StripPadding(urlsafe_b64encode(Utf8Encode(text)))]

\* decode_id(enc).  The result is [err, v]: err is "none" and v the value
\* json.loads returned, or err is the exception raised.
Pad(enc) == [i \in 1..((4 - (Len(enc) % 4)) % 4) |-> 61]

decode_id(enc) ==
  LET raw == urlsafe_b64decode(enc \o Pad(enc)) IN
  IF ~raw.ok THEN [err |-> "binascii.Error", v |-> JNull]
  ELSE LET text == Utf8Decode(raw.b) IN
    IF ~text.ok THEN [err |-> "UnicodeDecodeError", v |-> JNull]
    ELSE LET j == json_loads(text.s) IN
      IF ~j.ok THEN [err |-> "JSONDecodeError", v |-> JNull]
      ELSE [err |-> "none", v |-> j.v]

\* ========================================================================
\* str methods and regular expressions used by the size parser and the
\* normalizer

\* str.isspace() of a character: what str.strip() removes and \s matches
IsSpace(ch) ==
  ch \in (9..13) \cup (28..32) \cup {133, 160, 5760, 8232, 8233, 8239, 8287, 12288}
         \cup (8192..8202)

\* str.strip()
strip(s) ==
  LET keep == {i \in 1..Len(s) : ~IsSpace(s[i])} IN
  IF keep = {} THEN <<>>
  ELSE SubSeq(s, CHOOSE i \in keep : \A j \in keep : i <= j,
                 CHOOSE i \in keep : \A j \in keep : i >= j)

\* str.upper(), for the letters a to z
upper(s) == [i \in 1..Len(s) |-> IF s[i] \in 97..122 THEN s[i] - 32 ELSE s[i]]

\* str.startswith
startswith(s, prefix) == Len(prefix) <= Len(s) /\ SubSeq(s, 1, Len(prefix)) = prefix

\* the end of the longest run of [\d.] from p: the first position after it
RECURSIVE SkipNumber(_, _)
SkipNumber(s, p) ==
  IF p <= Len(s) /\ (IsDigit(s[p]) \/ s[p] = 46) THEN SkipNumber(s, p + 1) ELSE p

\* the end of the longest run of \s from p
RECURSIVE SkipSpace(_, _)
SkipSpace(s, p) == IF p <= Len(s) /\ IsSpace(s[p]) THEN SkipSpace(s, p + 1) ELSE p

\* re.match(r'([\d.]+)\s*([KMGT]?B)', s): the match starts at the first
\* character and may end anywhere.  number is group 1; unit is 0 for B, 1 for
\* KB, 2 for MB, 3 for GB, 4 for TB
SizeMatch(s) ==
  LET e == SkipNumber(s, 1)
      u == SkipSpace(s, e)
      k == IF u <= Len(s) /\ s[u] = 75 THEN 1
           ELSE IF u <= Len(s) /\ s[u] = 77 THEN 2
           ELSE IF u <= Len(s) /\ s[u] = 71 THEN 3
           ELSE IF u <= Len(s) /\ s[u] = 84 THEN 4
           ELSE 0
  IN IF e = 1 THEN [ok |-> FALSE, number |-> <<>>, unit |-> 0]
     ELSE IF k > 0 /\ u + 1 <= Len(s) /\ s[u + 1] = 66
       THEN [ok |-> TRUE, number |-> SubSeq(s, 1, e - 1), unit |-> k]
     ELSE IF u <= Len(s) /\ s[u] = 66
       THEN [ok |-> TRUE, number |-> SubSeq(s, 1, e - 1), unit |-> 0]
     ELSE [ok |-> FALSE, number |-> <<>>, unit |-> 0]

RECURSIVE Pow10(_)
Pow10(n) == IF n <= 0 THEN 1 ELSE 10 * Pow10(n - 1)

\* float(text) for a text made of digits and dots: it raises ValueError unless
\* there is at most one dot and at least one digit.  The value is kept exact,
\* as mant / 10^frac.
float(text) ==
  LET dots == {i \in 1..Len(text) : text[i] = 46}
      digits == SelectSeq(text, IsDigit)
  IN IF Cardinality(dots) > 1 \/ Len(digits) = 0
       THEN [err |-> "ValueError", mant |-> 0, frac |-> 0]
     ELSE [err |-> "none",
           mant |-> DigitsValue(digits, 1, Len(digits)),
           frac |-> IF dots = {} THEN 0 ELSE Len(text) - (CHOOSE i \in dots : TRUE)]

\* int(mant / 10^frac * 1024^unit): the product is exact in a double for the
\* sizes of the model, and int() drops the fraction.  Computed in two halves
\* so that no intermediate value leaves the range of the integers.
ScaledBytes(mant, frac, unit) ==
  LET d == Pow10(frac)
      hi == IF unit >= 2 THEN mant * Pow2(10 * (unit - 2)) ELSE 0
      lo == IF unit >= 2 THEN 0 ELSE mant * Pow2(10 * unit)
  IN (hi \div d) * 1048576 + ((hi % d) * 1048576) \div d + lo \div d

\* parse_size_to_bytes(size_str).  The result is [err, n]: err is "none" and n
\* the value returned, or err is the exception raised.
parse_size_to_bytes(size_str) ==
  IF Len(size_str) = 0 THEN [err |-> "none", n |-> 0]
  ELSE LET match == SizeMatch(upper(strip(size_str))) IN
    IF ~match.ok THEN [err |-> "none", n |-> 0]
    ELSE LET value == float(match.number) IN
      IF value.err # "none" THEN [err |-> value.err, n |-> 0]
      ELSE [err |-> "none", n |-> ScaledBytes(value.mant, value.frac, match.unit)]

\* ------------------------------------------------------------------------
\* html.unescape

\* the entries of html.entities.html5 the model holds: a name, with the
\* semicolon when it has one, and the text it stands for
html5 ==
  (Lit(<<"a", "m", "p", ";">>) :> <<38>>) @@
  (Lit(<<"a", "m", "p">>) :> <<38>>) @@
  (Lit(<<"l", "t", ";">>) :> <<60>>) @@
  (Lit(<<"l", "t">>) :> <<60>>) @@
  (Lit(<<"g", "t", ";">>) :> <<62>>) @@
  (Lit(<<"g", "t">>) :> <<62>>) @@
  (Lit(<<"q", "u", "o", "t", ";">>) :> <<34>>) @@
  (Lit(<<"q", "u", "o", "t">>) :> <<34>>) @@
  (Lit(<<"n", "b", "s", "p", ";">>) :> <<160>>) @@
  (Lit(<<"n", "b", "s", "p">>) :> <<160>>) @@
  (Lit(<<"a", "p", "o", "s", ";">>) :> <<39>>)

\* the text a numeric character reference stands for
NumericRef(num) ==
  LET \* html._invalid_charrefs for the numbers 128 to 159 (the rest of that
      \* table is 0 and 13, below)
      Cp1252 ==
        <<8364, 129, 8218, 402, 8222, 8230, 8224, 8225, 710, 8240, 352, 8249, 338, 141, 381, 143, 144, 8216, 8217, 8220, 8221, 8226, 8211, 8212, 732, 8482, 353, 8250, 339, 157, 382, 376>>
      \* html._invalid_codepoints
      InvalidCodepoints ==
        (1..8) \cup (14..31) \cup (127..159) \cup (64976..65007) \cup {11}
        \cup {p * 65536 + 65534 + i : p \in 0..16, i \in 0..1}
  IN IF num = 0 THEN <<65533>>
     ELSE IF num = 13 THEN <<13>>
     ELSE IF num \in 128..159 THEN <<Cp1252[num - 127]>>
     ELSE IF num \in 55296..57343 \/ num > 1114111 THEN <<65533>>
     ELSE IF num \in InvalidCodepoints THEN <<>>
     ELSE <<num>>

\* the text a named reference stands for: that of the name itself, else that
\* of its longest prefix of two characters or more that is a name followed by
\* the rest, else the reference unchanged
NamedRef(name) ==
  IF name \in DOMAIN html5 THEN html5[name]
  ELSE LET known == {x \in 2..(Len(name) - 1) : SubSeq(name, 1, x) \in DOMAIN html5} IN
    IF known = {} THEN <<38>> \o name
    ELSE LET x == CHOOSE y \in known : \A z \in known : y >= z
         IN html5[SubSeq(name, 1, x)] \o SubSeq(name, x + 1, Len(name))

RECURSIVE SkipHex(_, _)
SkipHex(s, p) == IF p <= Len(s) /\ IsHex(s[p]) THEN SkipHex(s, p + 1) ELSE p

RECURSIVE HexValue(_, _, _)
HexValue(s, p, q) == IF q < p THEN 0 ELSE HexValue(s, p, q - 1) * 16 + HexVal(s[q])

\* the end of the longest run of [^\t\n\f <&#;] from p, 32 characters at most
RECURSIVE SkipName(_, _, _)
SkipName(s, p, n) ==
  IF n < 32 /\ p <= Len(s) /\ s[p] \notin {9, 10, 12, 32, 60, 38, 35, 59}
    THEN SkipName(s, p + 1, n + 1) ELSE p

\* the character reference that starts after the & at p - 1: how many
\* characters of s it takes after the & (0: there is none) and its text
CharRefAt(s, p) ==
  LET semi(e) == IF e <= Len(s) /\ s[e] = 59 THEN 1 ELSE 0
      none == [len |-> 0, out |-> <<>>]
  IN IF p > Len(s) THEN none
     ELSE IF s[p] = 35 THEN
       IF p + 1 <= Len(s) /\ IsDigit(s[p + 1]) THEN
         LET e == SkipDigits(s, p + 1)
         IN [len |-> e - p + semi(e), out |-> NumericRef(DigitsValue(s, p + 1, e - 1))]
       ELSE IF p + 2 <= Len(s) /\ s[p + 1] \in {88, 120} /\ IsHex(s[p + 2]) THEN
         LET e == SkipHex(s, p + 2)
         IN [len |-> e - p + semi(e), out |-> NumericRef(HexValue(s, p + 2, e - 1))]
       ELSE none
     ELSE LET e == SkipName(s, p, 0) IN
       IF e = p THEN none
       ELSE [len |-> e - p + semi(e), out |-> NamedRef(SubSeq(s, p, e - 1 + semi(e)))]

RECURSIVE UnescapeFrom(_, _)
UnescapeFrom(s, p) ==
  IF p > Len(s) THEN <<>>
  ELSE IF s[p] # 38 THEN <<s[p]>> \o UnescapeFrom(s, p + 1)
  ELSE LET ref == CharRefAt(s, p + 1) IN
    IF ref.len = 0 THEN <<38>> \o UnescapeFrom(s, p + 1)
    ELSE ref.out \o UnescapeFrom(s, p + 1 + ref.len)

\* html.unescape(s)
unescape(s) == UnescapeFrom(s, 1)

\* ------------------------------------------------------------------------
\* _normalize_title

\* _TITLE_PARENS_RE.findall(text) from position p: the contents of the groups
\* "(" [^()]* ")", left to right, none overlapping another
RECURSIVE FindParens(_, _)
FindParens(text, p) ==
  IF p > Len(text) THEN <<>>
  ELSE IF text[p] # 40 THEN FindParens(text, p + 1)
  ELSE LET stops == {i \in (p + 1)..Len(text) : text[i] \in {40, 41}} IN
    IF stops = {} THEN <<>>
    ELSE LET e == CHOOSE i \in stops : \A j \in stops : i <= j IN
      IF text[e] = 41 THEN <<SubSeq(text, p + 1, e - 1)>> \o FindParens(text, e + 1)
      ELSE FindParens(text, p + 1)

\* lines 163-167: the last group of matches that is not blank, stripped; text
\* when there is none
LastGroup(text, matches) ==
  LET found == {i \in 1..Len(matches) : Len(strip(matches[i])) > 0} IN
  IF found = {} THEN text
  ELSE strip(matches[CHOOSE i \in found : \A j \in found : i >= j])

\* lines 160-167, text being the unescaped and stripped title
NormalizeText(text) ==
  IF Len(text) = 0 THEN text ELSE LastGroup(text, FindParens(text, 1))

\* _normalize_title(raw) for a str raw or None (<<>> stands for both: raw or "")
_normalize_title(raw) == NormalizeText(strip(unescape(raw)))

\* ------------------------------------------------------------------------
\* The normalizer: filter_and_map (src/server.py) and parse_results
\* (src/easynews_client.py)

\* the keys filter_and_map and parse_results read and write besides hash,
\* filename, ext, sig and title: each str, under its own text
Key ==
  ("0" :> Lit(<<"0">>)) @@
  ("4" :> Lit(<<"4">>)) @@
  ("6" :> Lit(<<"6">>)) @@
  ("7" :> Lit(<<"7">>)) @@
  ("10" :> Lit(<<"1", "0">>)) @@
  ("11" :> Lit(<<"1", "1">>)) @@
  ("12" :> Lit(<<"1", "2">>)) @@
  ("id" :> Lit(<<"i", "d">>)) @@
  ("subject" :> Lit(<<"s", "u", "b", "j", "e", "c", "t">>)) @@
  ("size" :> Lit(<<"s", "i", "z", "e">>)) @@
  ("poster" :> Lit(<<"p", "o", "s", "t", "e", "r">>)) @@
  ("dtime" :> Lit(<<"d", "t", "i", "m", "e">>)) @@
  ("date" :> Lit(<<"d", "a", "t", "e">>)) @@
  ("fn" :> Lit(<<"f", "n">>)) @@
  ("extension" :> Lit(<<"e", "x", "t", "e", "n", "s", "i", "o", "n">>)) @@
  ("posted" :> Lit(<<"p", "o", "s", "t", "e", "d">>)) @@
  ("data" :> Lit(<<"d", "a", "t", "a">>))

\* a or b
Or(a, b) == IF Truthy(a) THEN a ELSE b

\* str.replace(" - ", "-")
RECURSIVE ReplaceDash(_, _)
ReplaceDash(s, p) ==
  IF p > Len(s) THEN <<>>
  ELSE IF HasLit(s, p, <<32, 45, 32>>) THEN <<45>> \o ReplaceDash(s, p + 3)
  ELSE <<s[p]>> \o ReplaceDash(s, p + 1)

\* ".".join(segment for segment in s.split(" ") if segment), from position p
RECURSIVE JoinSegments(_, _)
JoinSegments(s, p) ==
  IF p > Len(s) THEN <<>>
  ELSE IF s[p] = 32 THEN JoinSegments(s, p + 1)
  ELSE LET blanks == {i \in p..Len(s) : s[i] = 32}
           e == IF blanks = {} THEN Len(s) + 1
                ELSE CHOOSE i \in blanks : \A j \in blanks : i <= j
           rest == JoinSegments(s, e)
       IN SubSeq(s, p, e - 1) \o (IF Len(rest) = 0 THEN <<>> ELSE <<46>> \o rest)

\* int(text) of a str: blanks around, a sign, digits; ok is FALSE when it
\* raises ValueError
IntOfStr(text) ==
  LET t == strip(text)
      signed == Len(t) > 0 /\ t[1] \in {43, 45}
      d == IF signed THEN SubSeq(t, 2, Len(t)) ELSE t
  IN IF Len(d) = 0 \/ \E i \in 1..Len(d) : ~IsDigit(d[i]) THEN [ok |-> FALSE, n |-> 0]
     ELSE [ok |-> TRUE,
           n |-> IF signed /\ t[1] = 45 THEN 0 - DigitsValue(d, 1, Len(d))
                 ELSE DigitsValue(d, 1, Len(d))]

\* int(x) of a float, x being its text in plain decimal notation: the
\* fraction is dropped
IntOfFloat(x) ==
  LET dots == {i \in 1..Len(x) : x[i] = 46}
      whole == IF dots = {} THEN x ELSE SubSeq(x, 1, (CHOOSE i \in dots : TRUE) - 1)
  IN IntOfStr(whole).n

\* the size of a row as lines 246-251 leave it: an int (a bool included) is
\* kept, anything else goes through int(), and 0 stands in when int() raises
CoerceSize(size) ==
  CASE size.t = "num" -> size
    [] size.t = "bool" -> size
    [] size.t = "float" -> JNum(IntOfFloat(size.x))
    [] size.t = "str" -> JNum(IntOfStr(size.s).n)
    [] OTHER -> JNum(0)

\* the number an int or a bool compares as
IntValue(v) == IF v.t = "bool" THEN (IF v.b THEN 1 ELSE 0) ELSE v.n

\* str(v), and v inside an f-string, for None, bool, int, float and str
str(v) ==
  CASE v.t = "str" -> v.s
    [] v.t = "null" -> Lit(<<"N", "o", "n", "e">>)
    [] v.t = "bool" -> IF v.b THEN Lit(<<"T", "r", "u", "e">>)
                       ELSE Lit(<<"F", "a", "l", "s", "e">>)
    [] v.t = "num" -> IF v.n < 0 THEN <<45>> \o Digits(0 - v.n) ELSE Digits(v.n)
    [] v.t = "float" -> v.x

\* the fields lines 216-236 read from a row
RowFields(it) ==
  IF it.t = "arr" THEN
    LET long == Len(it.a) >= 12 IN
    [hash_id |-> IF long THEN it.a[1] ELSE JNull,
     subject |-> IF long THEN it.a[7] ELSE JNull,
     filename_no_ext |-> IF long THEN it.a[11] ELSE JNull,
     ext |-> IF long THEN it.a[12] ELSE JNull,
     size |-> JNum(0),
     poster |-> IF Len(it.a) > 7 THEN it.a[8] ELSE JNull,
     posted_raw |-> IF Len(it.a) > 8 THEN it.a[9] ELSE JNull,
     sig |-> JNull,
     display_fn |-> JNull,
     extension_field |-> JNull]
  ELSE IF it.t = "obj" THEN
    [hash_id |-> Or(Get(it.m, K_hash), Or(Get(it.m, Key["0"]), Get(it.m, Key["id"]))),
     subject |-> Or(Get(it.m, Key["subject"]), Get(it.m, Key["6"])),
     filename_no_ext |-> Or(Get(it.m, K_filename), Get(it.m, Key["10"])),
     ext |-> Or(Get(it.m, K_ext), Get(it.m, Key["11"])),
     size |-> IF Key["size"] \in DOMAIN it.m THEN it.m[Key["size"]] ELSE JNum(0),
     poster |-> Or(Get(it.m, Key["poster"]), Get(it.m, Key["7"])),
     posted_raw |-> Or(Get(it.m, Key["dtime"]), Or(Get(it.m, Key["date"]), Get(it.m, Key["12"]))),
     sig |-> Get(it.m, K_sig),
     display_fn |-> Or(Get(it.m, Key["fn"]), Get(it.m, K_filename)),
     extension_field |-> Or(Get(it.m, Key["extension"]), Get(it.m, K_ext))]
  ELSE
    [hash_id |-> JNull, subject |-> JNull, filename_no_ext |-> JNull, ext |-> JNull,
     size |-> JNum(0), poster |-> JNull, posted_raw |-> JNull, sig |-> JNull,
     display_fn |-> JNull, extension_field |-> JNull]

\* a check of the hash alone
LacksKeyHashOnly(f) == ~Truthy(f.hash_id)

\* line 238: the row has no hash or no extension
LacksKey(f) == ~Truthy(f.hash_id) \/ ~Truthy(f.ext)

\* lines 256-266: the title made from the display filename, [err, title];
\* title is <<>> when none is made
DisplayTitle(f) ==
  IF ~Truthy(f.display_fn) THEN [err |-> "none", title |-> <<>>]
  ELSE IF f.display_fn.t # "str" THEN [err |-> "AttributeError", title |-> <<>>]
  ELSE LET cleaned == strip(f.display_fn.s) IN
    IF Len(cleaned) = 0 THEN [err |-> "none", title |-> <<>>]
    ELSE LET ext_component == Or(f.extension_field, f.ext) IN
      IF ext_component.t # "str" THEN [err |-> "AttributeError", title |-> <<>>]
      ELSE [err |-> "none",
            title |-> JoinSegments(ReplaceDash(cleaned, 1), 1)
                      \o (IF startswith(ext_component.s, <<46>>)
                            THEN ext_component.s
                            ELSE <<46>> \o ext_component.s)]

\* lines 268-270: the title made from the subject, or from base name and
\* extension; html.unescape raises AttributeError on a list or a dict and
\* TypeError on any other value that is no str
FallbackTitle(f) ==
  LET fallback == IF Truthy(f.subject) THEN f.subject
                  ELSE JStr(str(Or(f.filename_no_ext, JStr(<<>>))) \o str(f.ext))
  IN IF fallback.t \in {"arr", "obj"} THEN [err |-> "AttributeError", title |-> <<>>]
     ELSE IF fallback.t # "str" THEN [err |-> "TypeError", title |-> <<>>]
     ELSE [err |-> "none", title |-> _normalize_title(fallback.s)]

\* lines 256-270: the display title shown, else the fallback
TitleOr(shown, f) ==
  IF shown.err = "none" /\ Len(shown.title) = 0 THEN FallbackTitle(f) ELSE shown

\* the outcome of a row that is skipped
Skip == [err |-> "none", keep |-> FALSE, rec |-> EmptyDict]

\* lines 272-283: the dict appended for the fields f, the size and the title
Emit(f, size, title) ==
  IF title.err # "none" THEN [err |-> title.err, keep |-> FALSE, rec |-> EmptyDict]
  ELSE [err |-> "none", keep |-> TRUE,
        rec |-> (K_hash :> f.hash_id) @@
                (K_filename :> Or(f.filename_no_ext, JStr(<<>>))) @@
                (K_ext :> f.ext) @@
                (K_sig :> f.sig) @@
                (Key["size"] :> size) @@
                (K_title :> JStr(title.title)) @@
                (Key["poster"] :> f.poster) @@
                (Key["posted"] :> f.posted_raw)]

\* lines 238-283 on the fields f of a row, size being the coerced size
MapFields(f, size, min_bytes) ==
  IF LacksKey(f) THEN Skip
  ELSE IF IntValue(size) < min_bytes THEN Skip
  ELSE Emit(f, size, TitleOr(DisplayTitle(f), f))

MapSized(f, min_bytes) == MapFields(f, CoerceSize(f.size), min_bytes)

\* one turn of the loop of filter_and_map on the row it: [err, keep, rec].
\* keep is FALSE when the row is skipped; rec is the dict appended.
MapRow(it, min_bytes) == MapSized(RowFields(it), min_bytes)

\* the rows the loops go over: json_data.get("data", [])
DataRows(json_data) ==
  IF Key["data"] \in DOMAIN json_data THEN json_data[Key["data"]] ELSE JArr(<<>>)

\* the list so far and the outcome of one more row
Add(before, row) ==
  IF before.err # "none" THEN before
  ELSE IF row.err # "none" THEN [err |-> row.err, out |-> <<>>]
  ELSE [err |-> "none", out |-> IF row.keep THEN Append(before.out, row.rec) ELSE before.out]

RECURSIVE MapRows(_, _, _)
MapRows(rows, min_bytes, n) ==
  IF n = 0 THEN [err |-> "none", out |-> <<>>]
  ELSE Add(MapRows(rows, min_bytes, n - 1), MapRow(rows[n], min_bytes))

\* filter_and_map(json_data, min_bytes).  The result is [err, out]: err is
\* "none" and out the list returned, or err is the exception raised.
filter_and_map(json_data, min_bytes) ==
  LET data == DataRows(json_data) IN
  IF data.t # "arr" THEN [err |-> "TypeError", out |-> <<>>]
  ELSE MapRows(data.a, min_bytes, Len(data.a))

\* min_bytes as api() computes it from the minsize parameter (None: the
\* request has none)
MinBytes(min_size_param) ==
  LET parsed == IntOfStr(min_size_param.s)
      min_size_mb == IF ~Truthy(min_size_param) \/ ~parsed.ok THEN 100
                     ELSE Max(100, parsed.n)
  IN min_size_mb * 1024 * 1024

\* one turn of the loop of parse_results on row: [err, keep, rec]
ParseRow(row) ==
  LET isList == row.t = "arr" /\ Len(row.a) > 12
      isDict == row.t = "obj"
      hash_id == IF isList THEN row.a[1]
                 ELSE IF isDict /\ Key["0"] \in DOMAIN row.m THEN row.m[Key["0"]] ELSE JStr(<<>>)
      filename == IF isList THEN row.a[11]
                  ELSE IF isDict /\ Key["10"] \in DOMAIN row.m THEN row.m[Key["10"]] ELSE JStr(<<>>)
      ext == IF isList THEN row.a[12]
             ELSE IF isDict /\ Key["11"] \in DOMAIN row.m THEN row.m[Key["11"]] ELSE JStr(<<>>)
      size == IF isList THEN (IF Truthy(row.a[5]) THEN parse_size_to_bytes(str(row.a[5]))
                              ELSE [err |-> "none", n |-> 0])
              ELSE IF isDict THEN parse_size_to_bytes(
                     str(IF Key["4"] \in DOMAIN row.m THEN row.m[Key["4"]] ELSE JStr(<<48>>)))
              ELSE [err |-> "none", n |-> 0]
      sig == IF isDict THEN Get(row.m, K_sig) ELSE JNull
  IN IF size.err # "none" THEN [err |-> size.err, keep |-> FALSE, rec |-> EmptyDict]
     ELSE IF ~(Truthy(hash_id) /\ Truthy(filename))
       THEN [err |-> "none", keep |-> FALSE, rec |-> EmptyDict]
     ELSE [err |-> "none", keep |-> TRUE,
           rec |-> (Key["id"] :> hash_id) @@ (K_hash :> hash_id) @@ (K_filename :> filename) @@
                   (K_ext :> ext) @@ (K_sig :> sig) @@ (Key["size"] :> JNum(size.n))]

RECURSIVE ParseRows(_, _)
ParseRows(rows, n) ==
  IF n = 0 THEN [err |-> "none", out |-> <<>>]
  ELSE Add(ParseRows(rows, n - 1), ParseRow(rows[n]))

\* AsyncEasynewsClient.parse_results(json_data): [err, out], out the
\* SearchItems (their type and raw fields left out)
parse_results(json_data) ==
  LET data == DataRows(json_data) IN
  IF data.t # "arr" THEN [err |-> "TypeError", out |-> <<>>]
  ELSE ParseRows(data.a, Len(data.a))

\* ------------------------------------------------------------------------
\* The rows and thresholds the normalizer is applied to

\* the rows the normalizer is applied to, each under a name for what it holds
Row ==
  \* the array row of 12 positions with a size of 1.5 GB at position 4
  ("Matrix" :>
     JArr(<<JStr(Lit(<<"H", "1">>)), JNull, JNull, JNull, JStr(Lit(<<"1", ".", "5", " ", "G", "B">>)), JNull, JStr(Lit(<<"T", "h", "e", " ", "M", "a", "t", "r", "i", "x">>)), JStr(Lit(<<"p", "o", "s", "t", "e", "r">>)), JNum(1700000000), JNull, JStr(Lit(<<"T", "h", "e", ".", "M", "a", "t", "r", "i", "x", ".", "1", "9", "9", "9">>)), JStr(Lit(<<"m", "k", "v">>))>>)) @@
  \* the same row with a position 12
  ("LongMatrix" :>
     JArr(<<JStr(Lit(<<"H", "1">>)), JNull, JNull, JNull, JStr(Lit(<<"1", ".", "5", " ", "G", "B">>)), JNull, JStr(Lit(<<"T", "h", "e", " ", "M", "a", "t", "r", "i", "x">>)), JStr(Lit(<<"p", "o", "s", "t", "e", "r">>)), JNum(1700000000), JNull, JStr(Lit(<<"T", "h", "e", ".", "M", "a", "t", "r", "i", "x", ".", "1", "9", "9", "9">>)), JStr(Lit(<<"m", "k", "v">>)), JNull>>)) @@
  \* an array row of 11 positions
  ("Short" :>
     JArr(<<JStr(Lit(<<"H", "1">>)), JNull, JNull, JNull, JStr(Lit(<<"1", ".", "5", " ", "G", "B">>)), JNull, JStr(Lit(<<"T", "h", "e", " ", "M", "a", "t", "r", "i", "x">>)), JStr(Lit(<<"p", "o", "s", "t", "e", "r">>)), JNum(1700000000), JNull, JStr(Lit(<<"T", "h", "e", ".", "M", "a", "t", "r", "i", "x", ".", "1", "9", "9", "9">>))>>)) @@
  \* an array row whose display filename has blanks
  ("SpacedArray" :>
     JArr(<<JStr(Lit(<<"H", "1">>)), JNull, JNull, JNull, JStr(Lit(<<"1", ".", "5", " ", "G", "B">>)), JNull, JStr(Lit(<<"S", "o", "m", "e", ".", "R", "e", "l", "e", "a", "s", "e", " ", "(", "T", "h", "e", " ", "M", "a", "t", "r", "i", "x", ")">>)), JStr(Lit(<<"p", "o", "s", "t", "e", "r">>)), JNum(1700000000), JNull, JStr(Lit(<<"T", "h", "e", " ", "M", "a", "t", "r", "i", "x", " ", "1", "9", "9", "9">>)), JStr(Lit(<<"m", "k", "v">>))>>)) @@
  \* an array row with a blank subject
  ("BlankSubjectArray" :>
     JArr(<<JStr(Lit(<<"H", "1">>)), JNull, JNull, JNull, JStr(Lit(<<"1", ".", "5", " ", "G", "B">>)), JNull, JStr(Lit(<<" ">>)), JStr(Lit(<<"p", "o", "s", "t", "e", "r">>)), JNum(1700000000), JNull, JStr(Lit(<<"x">>)), JStr(Lit(<<"m", "k", "v">>))>>)) @@
  \* an array row without subject
  ("NoSubjectArray" :>
     JArr(<<JStr(Lit(<<"H", "1">>)), JNull, JNull, JNull, JStr(Lit(<<"1", ".", "5", " ", "G", "B">>)), JNull, JNull, JStr(Lit(<<"p", "o", "s", "t", "e", "r">>)), JNum(1700000000), JNull, JStr(Lit(<<"b", "a", "s", "e">>)), JStr(Lit(<<"m", "k", "v">>))>>)) @@
  \* an array row with an empty hash
  ("NoHashArray" :>
     JArr(<<JStr(<<>>), JNull, JNull, JNull, JStr(Lit(<<"1", ".", "5", " ", "G", "B">>)), JNull, JStr(Lit(<<"T", "h", "e", " ", "M", "a", "t", "r", "i", "x">>)), JStr(Lit(<<"p", "o", "s", "t", "e", "r">>)), JNum(1700000000), JNull, JStr(Lit(<<"x">>)), JStr(Lit(<<"m", "k", "v">>))>>)) @@
  \* an array row with an empty extension
  ("NoExtArray" :>
     JArr(<<JStr(Lit(<<"H", "1">>)), JNull, JNull, JNull, JStr(Lit(<<"1", ".", "5", " ", "G", "B">>)), JNull, JStr(Lit(<<"T", "h", "e", " ", "M", "a", "t", "r", "i", "x">>)), JStr(Lit(<<"p", "o", "s", "t", "e", "r">>)), JNum(1700000000), JNull, JStr(Lit(<<"x">>)), JStr(<<>>)>>)) @@
  \* a keyed row with named keys
  ("Keyed" :>
     JObj((K_hash :> JStr(Lit(<<"H", "1">>))) @@ (Key["subject"] :> JStr(Lit(<<"S", "o", "m", "e", ".", "R", "e", "l", "e", "a", "s", "e", " ", "(", "T", "h", "e", " ", "M", "a", "t", "r", "i", "x", ")">>))) @@ (K_filename :> JStr(Lit(<<"b", "a", "s", "e">>))) @@ (K_ext :> JStr(Lit(<<"m", "k", "v">>))) @@ (Key["size"] :> JNum(1610612736)))) @@
  \* a keyed row with stringified-index keys
  ("IndexKeyed" :>
     JObj((Key["0"] :> JStr(Lit(<<"H", "1">>))) @@ (Key["4"] :> JStr(Lit(<<"1", ".", "5", " ", "G", "B">>))) @@ (Key["6"] :> JStr(Lit(<<"S", "o", "m", "e", ".", "R", "e", "l", "e", "a", "s", "e", " ", "(", "T", "h", "e", " ", "M", "a", "t", "r", "i", "x", ")">>))) @@ (Key["10"] :> JStr(Lit(<<"T", "h", "e", " ", "M", "a", "t", "r", "i", "x", " ", "1", "9", "9", "9">>))) @@ (Key["11"] :> JStr(Lit(<<"m", "k", "v">>))))) @@
  \* a keyed row with a display filename
  ("Display" :>
     JObj((K_hash :> JStr(Lit(<<"H", "1">>))) @@ (Key["fn"] :> JStr(Lit(<<"T", "h", "e", " ", "M", "a", "t", "r", "i", "x", " ", "1", "9", "9", "9">>))) @@ (K_ext :> JStr(Lit(<<"m", "k", "v">>))) @@ (Key["size"] :> JNum(1610612736)))) @@
  \* a keyed row whose display filename has a dash and blanks around it
  ("Dash" :>
     JObj((K_hash :> JStr(Lit(<<"H", "1">>))) @@ (Key["fn"] :> JStr(Lit(<<" ", "a", " ", "-", " ", "b", " ", " ", "c", " ">>))) @@ (K_ext :> JStr(Lit(<<".", "m", "k", "v">>))) @@ (Key["size"] :> JNum(1610612736)))) @@
  \* a keyed row with a human-readable size
  ("TextSize" :>
     JObj((K_hash :> JStr(Lit(<<"H", "1">>))) @@ (Key["subject"] :> JStr(Lit(<<"S", "o", "m", "e", ".", "R", "e", "l", "e", "a", "s", "e", " ", "(", "T", "h", "e", " ", "M", "a", "t", "r", "i", "x", ")">>))) @@ (K_ext :> JStr(Lit(<<"m", "k", "v">>))) @@ (Key["size"] :> JStr(Lit(<<"1", ".", "5", " ", "G", "B">>))))) @@
  \* a keyed row with its size as a str of digits
  ("DigitSize" :>
     JObj((K_hash :> JStr(Lit(<<"H", "1">>))) @@ (Key["subject"] :> JStr(Lit(<<"S", "o", "m", "e", ".", "R", "e", "l", "e", "a", "s", "e", " ", "(", "T", "h", "e", " ", "M", "a", "t", "r", "i", "x", ")">>))) @@ (K_ext :> JStr(Lit(<<"m", "k", "v">>))) @@ (Key["size"] :> JStr(Lit(<<"1", "6", "1", "0", "6", "1", "2", "7", "3", "6">>))))) @@
  \* a keyed row with a float size and an escaped subject
  ("FloatSize" :>
     JObj((K_hash :> JStr(Lit(<<"H", "1">>))) @@ (Key["subject"] :> JStr(Lit(<<"&", "a", "m", "p", ";", "l", "t", ";", " ", "(", "x">>))) @@ (K_ext :> JStr(Lit(<<"m", "k", "v">>))) @@ (Key["size"] :> JFloat(Lit(<<"1", "6", "1", "0", "6", "1", "2", "7", "3", "6", ".", "5">>))))) @@
  \* a keyed row one byte under 1.5 GB
  ("Small" :>
     JObj((K_hash :> JStr(Lit(<<"H", "1">>))) @@ (Key["subject"] :> JStr(Lit(<<"S", " ", "(", "a", ")">>))) @@ (K_ext :> JStr(Lit(<<"m", "k", "v">>))) @@ (Key["size"] :> JNum(1610612735)))) @@
  \* a keyed row whose subject is a blank
  ("BlankSubject" :>
     JObj((K_hash :> JStr(Lit(<<"H", "1">>))) @@ (Key["subject"] :> JStr(Lit(<<" ">>))) @@ (K_ext :> JStr(Lit(<<"m", "k", "v">>))) @@ (Key["size"] :> JNum(1610612736)))) @@
  \* a keyed row whose subject unescapes to a no-break space
  ("NbspSubject" :>
     JObj((K_hash :> JStr(Lit(<<"H", "1">>))) @@ (Key["subject"] :> JStr(Lit(<<"&", "n", "b", "s", "p", ";">>))) @@ (K_ext :> JStr(Lit(<<"m", "k", "v">>))) @@ (Key["size"] :> JNum(1610612736)))) @@
  \* a keyed row whose subject ends in an empty group
  ("Parens" :>
     JObj((K_hash :> JStr(Lit(<<"H", "1">>))) @@ (Key["subject"] :> JStr(Lit(<<"A", " ", "(", "x", ")", " ", "(", " ", ")">>))) @@ (K_ext :> JStr(Lit(<<"m", "k", "v">>))) @@ (Key["size"] :> JNum(1610612736)))) @@
  \* a keyed row with neither subject nor names
  ("Bare" :>
     JObj((K_hash :> JStr(Lit(<<"H", "1">>))) @@ (K_ext :> JStr(Lit(<<"m", "k", "v">>))) @@ (Key["size"] :> JNum(1610612736)))) @@
  \* a keyed row with an empty hash and a display filename that is no str
  ("NoHash" :>
     JObj((K_hash :> JStr(<<>>)) @@ (Key["fn"] :> JNum(5)) @@ (K_ext :> JStr(Lit(<<"m", "k", "v">>))) @@ (Key["size"] :> JNum(1610612736)))) @@
  \* a keyed row without extension
  ("NoExt" :>
     JObj((K_hash :> JStr(Lit(<<"H", "1">>))) @@ (Key["subject"] :> JStr(Lit(<<"x">>))) @@ (Key["size"] :> JNum(1610612736)))) @@
  \* a keyed row whose display filename is a number
  ("NumberName" :>
     JObj((K_hash :> JStr(Lit(<<"H", "1">>))) @@ (Key["fn"] :> JNum(5)) @@ (K_ext :> JStr(Lit(<<"m", "k", "v">>))) @@ (Key["size"] :> JNum(1610612736)))) @@
  \* a keyed row whose subject is a number
  ("NumberSubject" :>
     JObj((K_hash :> JStr(Lit(<<"H", "1">>))) @@ (Key["subject"] :> JNum(5)) @@ (K_ext :> JStr(Lit(<<"m", "k", "v">>))) @@ (Key["size"] :> JNum(1610612736)))) @@
  \* a row that is neither a list nor a dict
  ("Text" :>
     JStr(Lit(<<"r", "o", "w">>)))

Rows == {Row[name] : name \in DOMAIN Row}

\* the rows that lists of several rows are made of
MixRows == {Row["Matrix"], Row["Display"], Row["NoExt"], Row["NumberName"]}

\* how many rows a response holds, at most
MaxRows == 2

RECURSIVE Lists(_, _)
Lists(S, n) ==
  IF n = 0 THEN {<<>>} ELSE {Append(l, x) : l \in Lists(S, n - 1), x \in S}

\* the responses of c.search(): every row alone, the lists of MixRows, a
\* response without data and one whose data is null
Responses ==
  {(Key["data"] :> JArr(l)) : l \in Lists(Rows, 1) \cup UNION {Lists(MixRows, n) : n \in 2..MaxRows}}
  \cup {(Key["data"] :> JArr(<<>>)), EmptyDict, (Key["data"] :> JNull)}

\* the thresholds filter_and_map is called with: those api() computes for
\* the minsize parameters none, 50, 1536, 1537 and one that is no number, and 0
Thresholds ==
  {MinBytes(p) : p \in {JNull, JStr(Lit(<<"5", "0">>)), JStr(Lit(<<"1", "5", "3", "6">>)),
                        JStr(Lit(<<"1", "5", "3", "7">>)), JStr(Lit(<<"a", "b", "c">>))}}
  \cup {0}

\* ------------------------------------------------------------------------
\* The strings the size parser is applied to: blanks, a number, blanks, a
\* unit, a tail

SizeParts ==
  [numbers |->
     {Lit(<<"1">>), Lit(<<"1", "0">>), Lit(<<"7", "0", "0">>), Lit(<<"1", ".", "5">>),
      Lit(<<"0", ".", "0", "0", "1">>), Lit(<<"1", ".">>), Lit(<<".", "5">>),
      Lit(<<"1", ".", "2", ".", "3">>), Lit(<<".">>), <<>>},
   units |->
     {Lit(<<"B">>), Lit(<<"K", "B">>), Lit(<<"M", "B">>), Lit(<<"G", "B">>), Lit(<<"T", "B">>),
      Lit(<<"g", "b">>), Lit(<<"k", "B">>), Lit(<<"X", "B">>), Lit(<<"G", "i", "B">>), <<>>},
   blanks |-> {<<>>, <<32>>},
   tails |-> {<<>>, Lit(<<"x">>), Lit(<<"/", "s">>)}]

\* the strings made of the parts whose value stays below 2^31
SizeStrings ==
  LET Small(s) ==
        LET match == SizeMatch(upper(strip(s)))
            value == float(match.number)
        IN ~match.ok \/ value.err # "none"
           \/ match.unit < 2
           \/ (value.mant * Pow2(10 * (match.unit - 2))) \div Pow10(value.frac) < 2048
  IN {s \in {Concat(<<lead, n, gap, u, tail>>) :
               lead \in SizeParts.blanks, n \in SizeParts.numbers,
               gap \in SizeParts.blanks, u \in SizeParts.units,
               tail \in SizeParts.tails} :
        Small(s)}

\* ========================================================================
\* The server: request handlers over the process-wide session state

VARIABLES
  EZ_SET,                \* EASYNEWS_USER and EASYNEWS_PASS are both set
  _CLIENT,               \* the stored handle, None or a handle
  _CLIENT_LOCK,          \* the handler holding the lock, 0 when it is free
  _CLIENT_LAST_LOGIN,
  _CLIENT_FAIL_COUNT,
  _CLIENT_FAILED_UNTIL,
  time,                  \* what time.time() returns
  pc,                    \* where each handler is
  req,                   \* the request each handler is serving
  now,                   \* client()'s local now of each handler
  c,                     \* the handle client() returned to each handler
  attempts,              \* login calls issued by each handler's client() call
  rejected,              \* a login of this client() call was rejected (401/403)
  entry,                 \* _CLIENT when this client() call took the lock
  logged,                \* the stored handle has logged in successfully
  streak,                \* failures recorded since the last successful login
  calls,                 \* requests received so far
  last,                  \* the request that ended last, and how
  decoded,               \* what decode_id returns for each identifier of IdInputs
  item,                  \* the reference handed to encode_id
  enc,                   \* what encode_id made of it
  dec,                   \* what decode_id made of that
  size_str,              \* the string handed to parse_size_to_bytes
  size_bytes,            \* what parse_size_to_bytes made of it
  json_data,             \* the response of c.search() handed to the normalizer
  min_bytes,             \* the threshold handed to filter_and_map
  mapped,                \* what filter_and_map made of json_data
  parsed_items           \* what parse_results made of json_data

session == <<_CLIENT, _CLIENT_LAST_LOGIN, _CLIENT_FAIL_COUNT, _CLIENT_FAILED_UNTIL>>

vars == <<EZ_SET, _CLIENT, _CLIENT_LOCK, _CLIENT_LAST_LOGIN, _CLIENT_FAIL_COUNT,
          _CLIENT_FAILED_UNTIL, time, pc, req, now, c, attempts, rejected, entry,
          logged, streak, calls, last, decoded, item, enc, dec,
          size_str, size_bytes, json_data, min_bytes, mapped, parsed_items>>

codec == <<item, enc, dec>>

pure == <<size_str, size_bytes, json_data, min_bytes, mapped, parsed_items>>

NotEncoded == [err |-> "unset", s |-> <<>>]

NotDecoded == [err |-> "unset", v |-> JNull]

NotParsed == [err |-> "unset", n |-> 0]

NotMapped == [err |-> "unset", out |-> <<>>]

\* ------------------------------------------------------------------------
\* The identifiers the download requests of the model carry
NormalItem ==
  DictPut(DictPut(DictPut(EmptyDict, K_hash, JStr(Lit(<<"H", "1">>))),
                  K_filename, JStr(Lit(<<"f">>))),
          K_ext, JStr(Lit(<<".", "m", "k", "v">>)))

\* the item a fallback search lists
SampleItem ==
  DictPut(DictPut(DictPut(DictPut(DictPut(DictPut(EmptyDict,
    K_hash, JStr(Lit(<<"S", "A", "M", "P", "L", "E", "H", "A", "S", "H", "1", "2", "3", "4", "5", "6", "7", "8", "9", "0">>))),
    K_filename, JStr(Lit(<<"s", "a", "m", "p", "l", "e", ".", "m", "a", "t", "r", "i", "x", ".", "c", "l", "i", "p">>))),
    K_ext, JStr(Lit(<<".", "m", "k", "v">>))),
    K_sig, JNull),
    K_title, JStr(Lit(<<"S", "a", "m", "p", "l", "e", " ", "M", "a", "t", "r", "i", "x", " ", "C", "l", "i", "p">>))),
    K_sample, JBool(TRUE))

IdInputs ==
  << encode_id(NormalItem).s,
     encode_id(SampleItem).s,
     Lit(<<"!", "!", "!">>),
     Lit(<<"W", "z", "F", "d">>) >>

NoReq == [kind |-> "none", auth |-> TRUE, id |-> 0, fallback |-> FALSE]

\* the requests handlers receive; id 0: the request has no id parameter
Requests ==
  {[kind |-> "caps", auth |-> a, id |-> 0, fallback |-> FALSE] : a \in BOOLEAN}
  \cup {[kind |-> "unsupported", auth |-> TRUE, id |-> 0, fallback |-> FALSE]}
  \cup {[kind |-> "search", auth |-> TRUE, id |-> 0, fallback |-> f] : f \in BOOLEAN}
  \cup {[kind |-> "get", auth |-> TRUE, id |-> i, fallback |-> FALSE] : i \in {0} \cup DOMAIN decoded}

\* how EasynewsClient.login() can end: it returns, it raises EasynewsError
\* because upstream rejected the credentials or because of the network, or it
\* raises an exception that is no EasynewsError
LoginOutcomes == {"ok", "auth", "net", "other"}

IsEasynewsError(o) == o \in {"auth", "net"}

\* how the upstream call of a handler (search, or the dl-nzb POST) can end:
\* status 200, status 200 with a body in which a file has the attribute
\* date="", another status, or an exception
UpstreamOutcomes == {"200", "200 empty date", "status", "exception"}

Is200(o) == o \in {"200", "200 empty date"}

\* ------------------------------------------------------------------------
Backoff(n) == Min(_CLIENT_BACKOFF_BASE * Pow2(n - 1), _CLIENT_BACKOFF_MAX)

NextFailCount(n) == Min(n + 1, FAIL_COUNT_CAP)

\* the backoff test with its comparison turned round
InBackoffReversed(t) == _CLIENT_FAILED_UNTIL # 0 /\ t > _CLIENT_FAILED_UNTIL

InBackoff(t) == _CLIENT_FAILED_UNTIL # 0 /\ t < _CLIENT_FAILED_UNTIL

\* the staleness test one second late
StaleLate(t) == t - _CLIENT_LAST_LOGIN > _CLIENT_LOGIN_TTL + 1

Stale(t) == t - _CLIENT_LAST_LOGIN > _CLIENT_LOGIN_TTL

\* EasynewsClient(EZ_USER, EZ_PASS): an object no reference designates
NewClient ==
  LET free == {h \in Handles : h # _CLIENT /\ \A t \in Threads : c[t] # h}
  IN CHOOSE h \in free : \A g \in free : h <= g

IdleLocals(t) ==
  /\ pc' = [pc EXCEPT ![t] = "idle"]
  /\ req' = [req EXCEPT ![t] = NoReq]
  /\ now' = [now EXCEPT ![t] = 0]
  /\ c' = [c EXCEPT ![t] = None]
  /\ attempts' = [attempts EXCEPT ![t] = 0]
  /\ rejected' = [rejected EXCEPT ![t] = FALSE]
  /\ entry' = [entry EXCEPT ![t] = None]

\* the handler ends its request: status is the response, exc the exception
\* behind it ("none" when there is none)
Respond(t, status, exc) ==
  /\ IdleLocals(t)
  /\ last' = [status |-> status, exc |-> exc]

\* client() raises e and the lock stays with whoever holds it
RaiseLocked(t, e) ==
  /\ UNCHANGED _CLIENT_LOCK
  /\ Respond(t, IF e \in {"EasynewsError: backoff", "EasynewsError: login"}
                  THEN "503" ELSE "500", e)

\* client() raises e at the handler: the with block releases the lock; api()
\* answers EasynewsError with 503 and lets everything else through (500)
Raise(t, e) ==
  /\ _CLIENT_LOCK' = 0
  /\ Respond(t, IF e \in {"EasynewsError: backoff", "EasynewsError: login"}
                  THEN "503" ELSE "500", e)

\* client() returns h to the handler, which goes on to its upstream call
Return(t, h) ==
  /\ _CLIENT_LOCK' = 0
  /\ pc' = [pc EXCEPT ![t] = "upstream"]
  /\ c' = [c EXCEPT ![t] = h]
  /\ now' = [now EXCEPT ![t] = 0]
  /\ attempts' = [attempts EXCEPT ![t] = 0]
  /\ rejected' = [rejected EXCEPT ![t] = FALSE]
  /\ entry' = [entry EXCEPT ![t] = None]
  /\ UNCHANGED <<req, last>>

\* a login failed for good: the failure is counted, the backoff window set and
\* the handle dropped
RecordFailure ==
  /\ _CLIENT_FAIL_COUNT' = NextFailCount(_CLIENT_FAIL_COUNT)
  /\ _CLIENT_FAILED_UNTIL' = time + Backoff(NextFailCount(_CLIENT_FAIL_COUNT))
  /\ _CLIENT' = None
  /\ logged' = FALSE
  /\ streak' = streak + 1
  /\ UNCHANGED _CLIENT_LAST_LOGIN

\* a login call is issued by handler t
IssueLogin(t, where) ==
  /\ pc' = [pc EXCEPT ![t] = where]
  /\ attempts' = [attempts EXCEPT ![t] = @ + 1]

\* ------------------------------------------------------------------------
\* d.get("sample") of the get branch, never taken
IsSampleNever(m) == FALSE

\* d.get("sample") of the get branch
IsSample(m) == Truthy(Get(m, K_sample))

\* api() up to its call of client(): the response it gives without calling
\* client(), or status "client" when it goes on to call it
ApiLocal(r) ==
  IF ~r.auth THEN [status |-> "401", exc |-> "none"]
  ELSE IF r.kind = "caps" THEN [status |-> "200 caps", exc |-> "none"]
  ELSE IF r.kind = "search" THEN
    IF r.fallback THEN [status |-> "200 rss sample", exc |-> "none"]
    ELSE [status |-> "client", exc |-> "none"]
  ELSE IF r.kind = "get" THEN
    IF r.id = 0 THEN [status |-> "400 Missing id", exc |-> "none"]
    ELSE LET d == decoded[r.id] IN
      IF d.err # "none" THEN [status |-> "500", exc |-> d.err]
      ELSE IF d.v.t # "obj" THEN [status |-> "500", exc |-> "AttributeError"]
      ELSE IF IsSample(d.v.m) THEN [status |-> "200 sample", exc |-> "none"]
      ELSE IF ~({K_hash, K_filename, K_ext} \subseteq DOMAIN d.v.m)
        THEN [status |-> "500", exc |-> "KeyError"]
      ELSE [status |-> "client", exc |-> "none"]
  ELSE [status |-> "400 Unsupported", exc |-> "none"]

\* a request arrives at handler t; when it needs the session, client() starts:
\* without credentials it raises RuntimeError, else it goes for the lock
Request(t, r) ==
  /\ pc[t] = "idle"
  /\ calls < MaxRequests
  /\ calls' = calls + 1
  /\ LET o == ApiLocal(r) IN
     IF o.status # "client" THEN Respond(t, o.status, o.exc)
     ELSE IF ~EZ_SET THEN Respond(t, "500", "RuntimeError")
     ELSE /\ pc' = [pc EXCEPT ![t] = "lock"]
          /\ req' = [req EXCEPT ![t] = r]
          /\ UNCHANGED <<now, c, attempts, rejected, entry, last>>
  /\ UNCHANGED <<EZ_SET, decoded, codec, pure, session, _CLIENT_LOCK, time, logged, streak>>

\* a lock that never blocks
LockIgnored(t) == TRUE

\* _CLIENT_LOCK can be acquired
LockFree(t) == _CLIENT_LOCK = 0

\* with _CLIENT_LOCK: now = time.time(); the backoff check
Lock(t) ==
  /\ pc[t] = "lock"
  /\ LockFree(t)
  /\ IF InBackoff(time)
       THEN /\ Raise(t, "EasynewsError: backoff")
       ELSE /\ _CLIENT_LOCK' = t
            /\ pc' = [pc EXCEPT ![t] = "branch"]
            /\ now' = [now EXCEPT ![t] = time]
            /\ entry' = [entry EXCEPT ![t] = _CLIENT]
            /\ UNCHANGED <<req, c, attempts, rejected, last>>
  /\ UNCHANGED <<EZ_SET, decoded, codec, pure, session, time, logged, streak, calls>>

\* now = time.time(); no handle: create one and log in; stale handle: log in
\* again; else return the handle
Branch(t) ==
  /\ pc[t] = "branch"
  /\ IF _CLIENT = None THEN
       /\ _CLIENT' = NewClient
       /\ logged' = FALSE
       /\ now' = [now EXCEPT ![t] = time]
       /\ IssueLogin(t, "login")
       /\ UNCHANGED <<_CLIENT_LOCK, req, c, rejected, entry, last>>
     ELSE IF Stale(time) THEN
       /\ now' = [now EXCEPT ![t] = time]
       /\ IssueLogin(t, "refresh1")
       /\ UNCHANGED <<_CLIENT, logged, _CLIENT_LOCK, req, c, rejected, entry, last>>
     ELSE
       /\ Return(t, _CLIENT)
       /\ UNCHANGED <<_CLIENT, logged>>
  /\ UNCHANGED <<EZ_SET, decoded, codec, pure, _CLIENT_LAST_LOGIN, _CLIENT_FAIL_COUNT,
                 _CLIENT_FAILED_UNTIL, time, streak, calls>>

\* the first login returns or raises
LoginDone(t, o) ==
  /\ pc[t] = "login"
  /\ IF o = "ok" THEN
       /\ _CLIENT_FAIL_COUNT' = 0
       /\ _CLIENT_FAILED_UNTIL' = 0
       /\ _CLIENT_LAST_LOGIN' = now[t]
       /\ logged' = TRUE
       /\ streak' = 0
       /\ Return(t, _CLIENT)
       /\ UNCHANGED _CLIENT
     ELSE IF IsEasynewsError(o) THEN
       /\ RecordFailure
       /\ Raise(t, "EasynewsError: login")
     ELSE
       /\ Raise(t, "Exception")
       /\ UNCHANGED <<session, logged, streak>>
  /\ UNCHANGED <<EZ_SET, decoded, codec, pure, time, calls>>

\* the login of a refresh returns or raises; on EasynewsError the handle is
\* replaced and a second login issued
Refresh1Done(t, o) ==
  /\ pc[t] = "refresh1"
  /\ IF o = "ok" THEN
       /\ _CLIENT_LAST_LOGIN' = time
       /\ logged' = TRUE
       /\ streak' = 0
       /\ Return(t, _CLIENT)
       /\ UNCHANGED <<_CLIENT, _CLIENT_FAIL_COUNT, _CLIENT_FAILED_UNTIL>>
     ELSE IF IsEasynewsError(o) THEN
       /\ _CLIENT' = NewClient
       /\ logged' = FALSE
       /\ IssueLogin(t, "refresh2")
       /\ rejected' = [rejected EXCEPT ![t] = (o = "auth")]
       /\ UNCHANGED <<_CLIENT_LOCK, _CLIENT_LAST_LOGIN, _CLIENT_FAIL_COUNT,
                      _CLIENT_FAILED_UNTIL, streak, req, now, c, entry, last>>
     ELSE
       /\ Raise(t, "Exception")
       /\ UNCHANGED <<session, logged, streak>>
  /\ UNCHANGED <<EZ_SET, decoded, codec, pure, time, calls>>

\* the second login of a refresh returns or raises
Refresh2Done(t, o) ==
  /\ pc[t] = "refresh2"
  /\ IF o = "ok" THEN
       /\ _CLIENT_LAST_LOGIN' = time
       /\ logged' = TRUE
       /\ streak' = 0
       /\ Return(t, _CLIENT)
       /\ UNCHANGED <<_CLIENT, _CLIENT_FAIL_COUNT, _CLIENT_FAILED_UNTIL>>
     ELSE IF IsEasynewsError(o) THEN
       /\ RecordFailure
       /\ Raise(t, "EasynewsError: login")
     ELSE
       /\ Raise(t, "Exception")
       /\ UNCHANGED <<session, logged, streak>>
  /\ UNCHANGED <<EZ_SET, decoded, codec, pure, time, calls>>

\* the handler's own upstream call on the handle it got: c.search(), or the
\* POST to dl-nzb
Upstream(t, o) ==
  /\ pc[t] = "upstream"
  /\ IF req[t].kind = "search"
       THEN Respond(t, IF Is200(o) THEN "200 rss" ELSE "500",
                    IF Is200(o) THEN "none" ELSE "Exception")
       \* r.content is served as it came
       ELSE Respond(t, IF o = "200" THEN "200 nzb"
                       ELSE IF o = "200 empty date" THEN "200 nzb empty date"
                       ELSE "502", "none")
  /\ UNCHANGED <<EZ_SET, decoded, codec, pure, session, _CLIENT_LOCK, time, logged, streak, calls>>

\* the instants the clock is followed to: the end of the backoff window and
\* the first second after the login TTL
Instants ==
  {_CLIENT_FAILED_UNTIL, _CLIENT_LAST_LOGIN + _CLIENT_LOGIN_TTL + 1}

Tick ==
  /\ \E i \in Instants : i > time /\ time' = i
  /\ UNCHANGED <<EZ_SET, decoded, codec, pure, session, _CLIENT_LOCK, pc, req, now, c, attempts,
                 rejected, entry, logged, streak, calls, last>>

\* the process after its module-level assignments
ServerInit ==
  /\ EZ_SET \in BOOLEAN
  /\ decoded = [i \in 1..Len(IdInputs) |-> decode_id(IdInputs[i])]
  /\ _CLIENT = None
  /\ _CLIENT_LOCK = 0
  /\ _CLIENT_LAST_LOGIN = 0
  /\ _CLIENT_FAIL_COUNT = 0
  /\ _CLIENT_FAILED_UNTIL = 0
  /\ time = Epoch
  /\ pc = [t \in Threads |-> "idle"]
  /\ req = [t \in Threads |-> NoReq]
  /\ now = [t \in Threads |-> 0]
  /\ c = [t \in Threads |-> None]
  /\ attempts = [t \in Threads |-> 0]
  /\ rejected = [t \in Threads |-> FALSE]
  /\ entry = [t \in Threads |-> None]
  /\ logged = FALSE
  /\ streak = 0
  /\ calls = 0
  /\ last = [status |-> "none", exc |-> "none"]

\* nothing handed to the size parser or to the normalizer
PureIdle ==
  /\ size_str = <<>>
  /\ size_bytes = NotParsed
  /\ json_data = EmptyDict
  /\ min_bytes = 0
  /\ mapped = NotMapped
  /\ parsed_items = NotMapped

Init ==
  /\ ServerInit
  /\ item = EmptyDict
  /\ enc = NotEncoded
  /\ dec = NotDecoded
  /\ PureIdle

Next ==
  \/ \E t \in Threads : \E r \in Requests : Request(t, r)
  \/ \E t \in Threads : Lock(t)
  \/ \E t \in Threads : Branch(t)
  \/ \E t \in Threads : \E o \in LoginOutcomes : LoginDone(t, o)
  \/ \E t \in Threads : \E o \in LoginOutcomes : Refresh1Done(t, o)
  \/ \E t \in Threads : \E o \in LoginOutcomes : Refresh2Done(t, o)
  \/ \E t \in Threads : \E o \in UpstreamOutcomes : Upstream(t, o)
  \/ Tick

Spec == Init /\ [][Next]_vars

\* the steps of the client() call of handler t, from the lock on
client(t) ==
  \/ Lock(t)
  \/ Branch(t)
  \/ \E o \in LoginOutcomes : LoginDone(t, o) \/ Refresh1Done(t, o) \/ Refresh2Done(t, o)

\* the server with handlers that keep running: a client() call that can take
\* a step takes one in the end, which for the pending login of a call means
\* that login() returns or raises
LiveSpec == Spec /\ \A t \in Threads : WF_vars(client(t))

\* ========================================================================
\* The identifier codec on its own: a reference is encoded, the identifier
\* decoded

\* a field that the reference does not carry
Absent == [t |-> "absent"]

WithField(m, k, v) == IF v = Absent THEN m ELSE DictPut(m, k, v)

Hashes == {Lit(<<"H", "1">>)}

\* f, a"\e-acute, newline euro emoji, a lone high surrogate
Filenames == {Lit(<<"f">>), <<97, 34, 92, 233>>, <<10, 8364, 128512>>, <<55357>>}

Exts == {Lit(<<".", "m", "k", "v">>), <<>>}

Sigs == {Absent, JStr(Lit(<<"s">>))}

Titles == {Absent, JStr(Lit(<<"T", " ", "1">>))}

Samples == {Absent, JBool(TRUE), JBool(FALSE)}

\* the references of the model
Items ==
  {WithField(WithField(WithField(
     DictPut(DictPut(DictPut(EmptyDict, K_hash, JStr(h)), K_filename, JStr(f)),
             K_ext, JStr(e)),
     K_sig, sg), K_title, ti), K_sample, sm) :
   h \in Hashes, f \in Filenames, e \in Exts, sg \in Sigs, ti \in Titles, sm \in Samples}

CodecInit ==
  /\ ServerInit
  /\ EZ_SET
  /\ item \in Items
  /\ enc = NotEncoded
  /\ dec = NotDecoded
  /\ PureIdle

Encode ==
  /\ enc = NotEncoded
  /\ enc' = encode_id(item)
  /\ UNCHANGED <<EZ_SET, decoded, session, _CLIENT_LOCK, time, pc, req, now, c,
                 attempts, rejected, entry, logged, streak, calls, last, item, dec, pure>>

Decode ==
  /\ enc.err = "none"
  /\ dec = NotDecoded
  /\ dec' = decode_id(enc.s)
  /\ UNCHANGED <<EZ_SET, decoded, session, _CLIENT_LOCK, time, pc, req, now, c,
                 attempts, rejected, entry, logged, streak, calls, last, item, enc, pure>>

CodecNext == Encode \/ Decode

CodecSpec == CodecInit /\ [][CodecNext]_vars

\* ========================================================================
\* The size parser on its own: parse_size_to_bytes is applied to a string

SizeInit ==
  /\ ServerInit
  /\ EZ_SET
  /\ item = EmptyDict
  /\ enc = NotEncoded
  /\ dec = NotDecoded
  /\ size_str \in SizeStrings
  /\ size_bytes = NotParsed
  /\ json_data = EmptyDict
  /\ min_bytes = 0
  /\ mapped = NotMapped
  /\ parsed_items = NotMapped

server == <<EZ_SET, decoded, session, _CLIENT_LOCK, time, pc, req, now, c, attempts,
            rejected, entry, logged, streak, calls, last>>

ParseSize ==
  /\ size_bytes = NotParsed
  /\ size_bytes' = parse_size_to_bytes(size_str)
  /\ UNCHANGED <<server, codec, size_str, json_data, min_bytes, mapped, parsed_items>>

SizeSpec == SizeInit /\ [][ParseSize]_vars

\* ========================================================================
\* The normalizer on its own: filter_and_map and parse_results are applied to
\* a response

NormInit ==
  /\ ServerInit
  /\ EZ_SET
  /\ item = EmptyDict
  /\ enc = NotEncoded
  /\ dec = NotDecoded
  /\ size_str = <<>>
  /\ size_bytes = NotParsed
  /\ json_data \in Responses
  /\ min_bytes \in Thresholds
  /\ mapped = NotMapped
  /\ parsed_items = NotMapped

FilterAndMap ==
  /\ mapped = NotMapped
  /\ mapped' = filter_and_map(json_data, min_bytes)
  /\ UNCHANGED <<server, codec, size_str, size_bytes, json_data, min_bytes, parsed_items>>

ParseResults ==
  /\ parsed_items = NotMapped
  /\ parsed_items' = parse_results(json_data)
  /\ UNCHANGED <<server, codec, size_str, size_bytes, json_data, min_bytes, mapped>>

NormNext == FilterAndMap \/ ParseResults

NormSpec == NormInit /\ [][NormNext]_vars

\* ========================================================================
\* Properties

\* the positions at which a login call is running
LoginPcs == {"login", "refresh1", "refresh2"}

\* the positions at which a handler holds _CLIENT_LOCK
LockedPcs == {"branch"} \cup LoginPcs

\* the clock is inside a backoff window
WindowOpen == _CLIENT_FAILED_UNTIL # 0 /\ time < _CLIENT_FAILED_UNTIL

\* C1: a client() call that makes its backoff check while _CLIENT_FAILED_UNTIL
\* is set and the clock is before it raises EasynewsError at once (the handler
\* answers 503): it issues no login, keeps the lock free and leaves _CLIENT,
\* _CLIENT_LAST_LOGIN, _CLIENT_FAIL_COUNT and _CLIENT_FAILED_UNTIL as they were.
C1_FailFast ==
  [][\A t \in Threads :
       (pc[t] = "lock" /\ pc'[t] # "lock" /\ WindowOpen)
       => /\ pc'[t] = "idle"
          /\ last' = [status |-> "503", exc |-> "EasynewsError: backoff"]
          /\ attempts' = attempts
          /\ \A u \in Threads : pc'[u] \notin LoginPcs
          /\ _CLIENT_LOCK' = 0
          /\ UNCHANGED session]_vars

\* a call was turned away inside the window opened by a recorded failure
C1_Witness ==
  /\ last = [status |-> "503", exc |-> "EasynewsError: backoff"]
  /\ WindowOpen
  /\ _CLIENT_FAIL_COUNT = 1
  /\ _CLIENT = None

\* C2: the failure recorded as the k-th since the last successful login opens
\* a window of min(5 * 2^(k-1), 300) seconds from the moment it is recorded.
C2_Schedule ==
  [][streak' = streak + 1
       => _CLIENT_FAILED_UNTIL' =
            time + Min(_CLIENT_BACKOFF_BASE * Pow2(streak' - 1), _CLIENT_BACKOFF_MAX)]_vars

\* C3: while a caller waits for the lock behind a call that is logging in,
\* that login is the only one the call has issued.
C3_SingleLogin ==
  \A t, u \in Threads :
    (pc[u] = "lock" /\ pc[t] \in LoginPcs) => attempts[t] = 1

\* C4: at most one handler is between taking and releasing _CLIENT_LOCK, so at
\* most one login is in flight and at most one call is between reading and
\* writing the session state; that handler is the one the lock names.
C4_MutualExclusion ==
  /\ Cardinality({t \in Threads : pc[t] \in LockedPcs}) <= 1
  /\ \A t \in Threads : pc[t] \in LockedPcs => _CLIENT_LOCK = t

\* one caller waits for the lock while another is logging in
C4_Witness ==
  \E t, u \in Threads : t # u /\ pc[t] \in LoginPcs /\ pc[u] = "lock"

\* C5: when client() returns a handle after a login that succeeded,
\* _CLIENT_FAIL_COUNT is 0 and _CLIENT_FAILED_UNTIL is cleared.
C5_ResetOnSuccess ==
  [][\A t \in Threads :
       (pc[t] \in LoginPcs /\ pc'[t] = "upstream")
       => (_CLIENT_FAIL_COUNT' = 0 /\ _CLIENT_FAILED_UNTIL' = 0)]_vars

\* C6: every login that ends in EasynewsError adds one to _CLIENT_FAIL_COUNT
\* (up to 10), sets _CLIENT_FAILED_UNTIL to the clock plus
\* min(5 * 2^(count-1), 300), drops the handle and reaches the caller.
C6_Bookkeeping ==
  [][\A t \in Threads :
       (\/ pc[t] = "refresh1" /\ pc'[t] = "refresh2"
        \/ /\ pc[t] \in LoginPcs /\ pc'[t] = "idle"
           /\ last'.exc = "EasynewsError: login")
       => /\ _CLIENT_FAIL_COUNT' = Min(_CLIENT_FAIL_COUNT + 1, FAIL_COUNT_CAP)
          /\ _CLIENT_FAIL_COUNT' \in 0..FAIL_COUNT_CAP
          /\ _CLIENT_FAILED_UNTIL' =
               time + Min(_CLIENT_BACKOFF_BASE * Pow2(_CLIENT_FAIL_COUNT' - 1),
                          _CLIENT_BACKOFF_MAX)
          /\ _CLIENT' = None
          /\ pc'[t] = "idle"
          /\ last'.status = "503"]_vars

\* C7: no login is running in a client() call in which upstream has already
\* rejected the credentials.
C7_NoRetryAfterRejection ==
  \A t \in Threads : rejected[t] => pc[t] \notin LoginPcs

\* the fields of a reference, an absent one reading as None and the sample
\* flag as its truth value
SameFields(a, b) ==
  /\ \A k \in {K_hash, K_filename, K_ext, K_sig, K_title} : Get(a, k) = Get(b, k)
  /\ Truthy(Get(a, K_sample)) = Truthy(Get(b, K_sample))

\* C8: every reference is encoded, and the identifier decodes to an object
\* that equals the reference field for field.
C8_RoundTrip ==
  /\ enc.err \in {"unset", "none"}
  /\ dec # NotDecoded
       => (dec.err = "none" /\ dec.v.t = "obj" /\ SameFields(item, dec.v.m))

\* the identifier i of a download request is no reference: decode_id fails on
\* it, or what it yields is no object with hash, filename and ext
Malformed(i) ==
  LET d == decoded[i] IN
    \/ d.err # "none"
    \/ d.v.t # "obj"
    \/ ~({K_hash, K_filename, K_ext} \subseteq DOMAIN d.v.m)

\* C9: a download request with a malformed identifier ends in the handler
\* with a response of its own: no exception leaves api(), client() is not
\* called and the session is untouched.
C9_BadReference ==
  [][\A t \in Threads : \A r \in Requests :
       (r.kind = "get" /\ r.auth /\ r.id # 0 /\ Malformed(r.id) /\ Request(t, r))
       => /\ pc'[t] = "idle"
          /\ last'.exc = "none"
          /\ last'.status # "500"
          /\ UNCHANGED <<session, _CLIENT_LOCK>>]_vars

\* the request r is a download request whose identifier decodes to an object
\* with a true sample entry
SampleGet(r) ==
  /\ r.kind = "get" /\ r.auth /\ r.id # 0
  /\ decoded[r.id].err = "none"
  /\ decoded[r.id].v.t = "obj"
  /\ Truthy(Get(decoded[r.id].v.m, K_sample))

\* C10: a download request for a sample reference is answered with the fixed
\* artifact in the same step, whatever the session state: client() is not
\* called, no login is issued and the session state and the lock stay as
\* they were.
C10_SampleOffline ==
  [][\A t \in {u \in Threads : pc[u] = "idle" /\ calls' # calls} :
     \A r \in {q \in Requests : SampleGet(q)} :
       Request(t, r)
       => /\ pc'[t] = "idle"
          /\ last' = [status |-> "200 sample", exc |-> "none"]
          /\ attempts' = attempts
          /\ \A u \in Threads : pc'[u] = pc[u]
          /\ UNCHANGED <<session, _CLIENT_LOCK, logged>>]_vars

\* the sample artifact was served inside a backoff window
C10_Witness ==
  /\ last = [status |-> "200 sample", exc |-> "none"]
  /\ WindowOpen
  /\ _CLIENT = None

\* C11: a search that follows a search answered from upstream, with the same
\* query, page size and offset and before the clock has moved at all (so inside
\* any cache TTL), is answered at once with the stored feed: client() is not
\* called and no upstream query is issued.
C11_CacheShields ==
  [][\A t \in Threads : \A r \in Requests :
       (/\ r.kind = "search" /\ r.auth /\ ~r.fallback
        /\ last = [status |-> "200 rss", exc |-> "none"]
        /\ time = Epoch
        /\ Request(t, r))
       => /\ pc'[t] = "idle"
          /\ last' = [status |-> "200 rss", exc |-> "none"]
          /\ UNCHANGED <<session, _CLIENT_LOCK>>]_vars

\* C17: no successful download of a reference that is not the sample serves an
\* artifact in which a date="" attribute is left: it was rewritten to date="0".
C17_DateFixup ==
  last.status # "200 nzb empty date"

\* C18: a client() call that found the session stale and returns does so with
\* the handle that was stored when it began, and that handle is still the
\* stored one: a refresh never swaps the handle of a call that succeeds.
C18_RefreshKeepsHandle ==
  [][\A t \in Threads :
       (pc[t] \in {"refresh1", "refresh2"} /\ pc'[t] = "upstream")
       => (c'[t] = entry[t] /\ _CLIENT' = entry[t])]_vars

\* C20: whenever no client() call holds the lock, a stored handle comes with a
\* failure count of zero and a cleared backoff deadline, and a failure count
\* above zero comes with no stored handle.
C20_ConsistentSession ==
  _CLIENT_LOCK = 0 =>
    /\ (_CLIENT # None => (_CLIENT_FAIL_COUNT = 0 /\ _CLIENT_FAILED_UNTIL = 0))
    /\ (_CLIENT_FAIL_COUNT > 0 => _CLIENT = None)

\* C21: the handle a client() call returns is the stored one, a login on it
\* has succeeded, and the login recorded for it is no more than the TTL before
\* the instant at which the call tested staleness; that holds also when an
\* earlier call left client() by an exception raised inside a login.
C21_FreshHandles ==
  [][\A t \in Threads :
       (pc[t] \in {"branch", "login", "refresh1", "refresh2"} /\ pc'[t] = "upstream")
       => /\ c'[t] # None
          /\ c'[t] = _CLIENT'
          /\ logged'
          /\ (IF pc[t] = "branch" THEN time ELSE now[t]) - _CLIENT_LAST_LOGIN'
               <= _CLIENT_LOGIN_TTL]_vars

\* at the first instant a call has been answered 500 for an exception and the
\* second handle ever created is stored and held by a handler: the first one
\* was left behind by a login that raised no EasynewsError, and the call after
\* it refreshed, rotated the handle and logged in
C21_Witness ==
  /\ time = Epoch
  /\ calls = 2
  /\ last = [status |-> "500", exc |-> "Exception"]
  /\ logged
  /\ \E t \in Threads : pc[t] = "upstream" /\ c[t] = 2 /\ _CLIENT = 2

\* C22: a client() call that ends in an exception leaves the lock free, and
\* every client() call that waits for the lock goes on to return or to raise.
C22_NoDeadlock ==
  /\ [][\A t \in Threads :
          (pc[t] \in {"lock"} \cup LockedPcs /\ pc'[t] = "idle") => _CLIENT_LOCK' = 0]_vars
  /\ \A t \in Threads : (pc[t] = "lock") ~> (pc[t] \in {"idle", "upstream"})

\* a login failure has been recorded and answered, and a later call holds the
\* lock
C22_Witness ==
  /\ _CLIENT_FAIL_COUNT > 0
  /\ last = [status |-> "503", exc |-> "EasynewsError: login"]
  /\ \E t \in Threads : _CLIENT_LOCK = t /\ pc[t] = "branch"

\* ------------------------------------------------------------------------
\* The normalizer and the size parser

\* the response holds the single row it
OnlyRow(it) ==
  /\ Key["data"] \in DOMAIN json_data
  /\ json_data[Key["data"]] = JArr(<<it>>)

\* C12: a search whose response holds the array row Row["Matrix"] alone, with a
\* minimum size that is at most its 1.5 GB, yields exactly one record, of size
\* 1610612736 and extension "mkv".
C12_EndToEnd ==
  (OnlyRow(Row["Matrix"]) /\ min_bytes <= 1610612736 /\ mapped # NotMapped)
  => /\ mapped.err = "none"
     /\ Len(mapped.out) = 1
     /\ mapped.out[1][Key["size"]] = JNum(1610612736)
     /\ mapped.out[1][K_ext] = JStr(Lit(<<"m", "k", "v">>))

\* the size a row gives: at position 4 of an array row, under "size" or "4"
\* of a keyed row
RawSize(it) ==
  IF it.t = "arr" THEN it.a[5] ELSE Or(Get(it.m, Key["size"]), Get(it.m, Key["4"]))

\* the row is of one of the two shapes and gives its size as a number or as a
\* string the size parser reads
Sized(it) ==
  /\ (it.t = "arr" /\ Len(it.a) >= 12) \/ it.t = "obj"
  /\ \/ RawSize(it).t = "num"
     \/ /\ RawSize(it).t = "str"
        /\ parse_size_to_bytes(RawSize(it).s).err = "none"
        /\ parse_size_to_bytes(RawSize(it).s).n > 0

SizeInBytes(it) ==
  IF RawSize(it).t = "num" THEN RawSize(it).n ELSE parse_size_to_bytes(RawSize(it).s).n

\* the row has a hash and an extension
HasKeys(it) == Truthy(RowFields(it).hash_id) /\ Truthy(RowFields(it).ext)

\* C13: a row with a hash and an extension yields no record when its size is
\* below min_bytes and exactly one record when its size is min_bytes or more.
C13_Threshold ==
  \A it \in Rows :
    (OnlyRow(it) /\ Sized(it) /\ HasKeys(it) /\ mapped # NotMapped)
    => /\ mapped.err = "none"
       /\ Len(mapped.out) = (IF SizeInBytes(it) < min_bytes THEN 0 ELSE 1)

\* the numbers of the size strings that are well formed, as mant / 10^frac
GoodNumbers ==
  {[text |-> Lit(<<"1">>), mant |-> 1, frac |-> 0],
   [text |-> Lit(<<"1", "0">>), mant |-> 10, frac |-> 0],
   [text |-> Lit(<<"7", "0", "0">>), mant |-> 700, frac |-> 0],
   [text |-> Lit(<<"1", ".", "5">>), mant |-> 15, frac |-> 1],
   [text |-> Lit(<<"0", ".", "0", "0", "1">>), mant |-> 1, frac |-> 3]}

\* the units, upper case and lower case, with their power of 1024
GoodUnits ==
  {[text |-> Lit(<<"B">>), unit |-> 0], [text |-> Lit(<<"K", "B">>), unit |-> 1],
   [text |-> Lit(<<"M", "B">>), unit |-> 2], [text |-> Lit(<<"G", "B">>), unit |-> 3],
   [text |-> Lit(<<"T", "B">>), unit |-> 4], [text |-> Lit(<<"g", "b">>), unit |-> 3],
   [text |-> Lit(<<"k", "B">>), unit |-> 1]}

\* the strings <n><unit>, blanks allowed before the parts, with their values
WellFormedSizes ==
  {[s |-> Concat(<<x[1], x[2].text, x[3], x[4].text>>),
    bytes |-> ScaledBytes(x[2].mant, x[2].frac, x[4].unit)] :
     x \in {y \in SizeParts.blanks \X GoodNumbers \X SizeParts.blanks \X GoodUnits :
              \/ y[4].unit < 3
              \/ y[2].mant * Pow2(10 * (y[4].unit - 2)) < 2048 * Pow10(y[2].frac)}}

\* the strings without number, with a malformed number, without unit, with
\* an unknown unit, or with characters after the unit
MalformedSizes ==
  {Concat(<<x[1], x[2], x[3], x[4], x[5]>>) :
     x \in (SizeParts.blanks \X {<<>>, <<46>>, Lit(<<"1", ".", "2", ".", "3">>)} \X SizeParts.blanks \X SizeParts.units \X SizeParts.tails)
           \cup (SizeParts.blanks \X SizeParts.numbers \X SizeParts.blanks \X {<<>>, Lit(<<"X", "B">>), Lit(<<"G", "i", "B">>)} \X SizeParts.tails)
           \cup (SizeParts.blanks \X SizeParts.numbers \X SizeParts.blanks \X SizeParts.units \X (SizeParts.tails \ {<<>>}))}

\* C14: parse_size_to_bytes never raises; it returns n * 1024^k for a string
\* <n><unit> and 0 for a malformed string.
C14_SizeParser ==
  size_bytes # NotParsed =>
    /\ size_bytes.err = "none"
    /\ \A w \in WellFormedSizes : w.s = size_str => size_bytes.n = w.bytes
    /\ size_str \in MalformedSizes => size_bytes.n = 0

\* C15: every record filter_and_map returns has a hash and an extension, and
\* the rows of a response that lack either are skipped: they raise nothing
\* and add no record.
C15_KeyFields ==
  mapped # NotMapped =>
    /\ \A i \in 1..Len(mapped.out) :
         Truthy(mapped.out[i][K_hash]) /\ Truthy(mapped.out[i][K_ext])
    /\ (Key["data"] \in DOMAIN json_data /\ json_data[Key["data"]].t = "arr") =>
         LET rows == json_data[Key["data"]].a
             keyed == {i \in 1..Len(rows) : HasKeys(rows[i])}
         IN /\ keyed = {} => (mapped.err = "none" /\ mapped.out = <<>>)
            /\ Len(mapped.out) <= Cardinality(keyed)

\* a response with a row that lacks a key and a row that is emitted
C15_Witness ==
  /\ mapped.err = "none"
  /\ Len(mapped.out) = 1
  /\ json_data = (Key["data"] :> JArr(<<Row["NoExt"], Row["Display"]>>))

\* the display filename of a row: position 10, or its keyed equivalents
DisplayName(it) ==
  IF it.t = "arr" THEN it.a[11]
  ELSE Or(Get(it.m, Key["fn"]), Or(Get(it.m, K_filename), Get(it.m, Key["10"])))

\* the row is of one of the two shapes and its names are strs or absent
Named(it) ==
  /\ (it.t = "arr" /\ Len(it.a) >= 12) \/ it.t = "obj"
  /\ DisplayName(it).t \in {"str", "null"}
  /\ RowFields(it).subject.t \in {"str", "null"}
  /\ RowFields(it).filename_no_ext.t \in {"str", "null"}
  /\ RowFields(it).ext.t = "str"

\* the title the precedence rule gives a row
RuleTitle(it) ==
  LET f == RowFields(it)
      shown == IF DisplayName(it).t = "str" THEN strip(DisplayName(it).s) ELSE <<>>
  IN IF Len(shown) > 0
       THEN JoinSegments(ReplaceDash(shown, 1), 1)
            \o (IF startswith(f.ext.s, <<46>>) THEN f.ext.s ELSE <<46>> \o f.ext.s)
     ELSE _normalize_title(IF Truthy(f.subject) THEN f.subject.s
                           ELSE str(Or(f.filename_no_ext, JStr(<<>>))) \o f.ext.s)

\* C16: the title of the record of a row is the sanitized display filename
\* with the dotted extension when the row has a display filename that is not
\* blank, and the normalized subject (or base name and extension) otherwise.
C16_TitlePrecedence ==
  \A it \in Rows :
    (OnlyRow(it) /\ Named(it) /\ mapped.err = "none" /\ Len(mapped.out) = 1)
    => mapped.out[1][K_title] = JStr(RuleTitle(it))

\* C19: every record filter_and_map returns has a title that is not empty.
C19_TitleNotEmpty ==
  \A i \in 1..Len(mapped.out) : Len(mapped.out[i][K_title].s) > 0

====
